---- MODULE Spec2Model ----
(***************************************************************************)
(* A model of the e-mail question answering agent of the query route:     *)
(* the POST handler, agentSolveQuery (the agent loop), callAgent and      *)
(* callAgentWithRetry (the reasoning gateway), searchEmails (the search   *)
(* executor), parseEmailData and calculateSum.                            *)
(*                                                                         *)
(* Texts the code scans (search queries, sum categories) are sequences of *)
(* one-character strings; texts the code only tests for emptiness and     *)
(* passes on (answers, header values) are strings.  An optional field of  *)
(* a JSON object is None when absent and Some(v) when present.            *)
(*                                                                         *)
(* A request is suspended at every awaited network call (token refresh,   *)
(* reasoning call, backoff sleep, mail-store list, mail-store get); one   *)
(* action of the model runs a request from the completion of one such     *)
(* call to the next call it issues, which is what the single-threaded     *)
(* event loop runs without interleaving.                                  *)
(***************************************************************************)
EXTENDS Integers, Sequences, FiniteSets, TLC

VARIABLES
    sess,               \* per request: the locals of POST, agentSolveQuery,
                        \* callAgentWithRetry and searchEmails, and its response
    previousQueries,    \* the module-level Set of the route (line 17)
    credentials         \* oauth2Client.credentials of the module-level client
                        \* (lines 10-14)

vars == <<sess, previousQueries, credentials>>

Sessions == {"r1", "r2"}

(***************************************************************************)
(* Bounds of the model.                                                   *)
(***************************************************************************)
MaxQueryAtoms == 3      \* atoms per generated search query (tier checks)
MaxReplyLen == 7        \* ids in one mail-store list reply (executor checks)
MaxDedupDepth == 2      \* "try a different term" re-invocations per decide

(***************************************************************************)
(* Optional values and texts.                                             *)
(***************************************************************************)
None == <<>>
Some(v) == <<v>>

\* JavaScript truthiness of an optional string field: present and not "".
TruthyText(o) == o # None /\ o[1] # ""
\* The same for a text kept as a character sequence.
TruthyChars(o) == o # None /\ o[1] # <<>>

IsSpace(c) == c \in {" ", "\t", "\n"}

LowerChar(c) ==
    CASE c = "A" -> "a"
      [] c = "B" -> "b"
      [] c = "F" -> "f"
      [] OTHER -> c

ToLowerCase(s) == IF s = <<>> THEN <<>> ELSE [i \in 1..Len(s) |-> LowerChar(s[i])]

StartsWithAt(s, i, w) ==
    /\ i >= 1
    /\ i + Len(w) - 1 <= Len(s)
    /\ \A k \in 1..Len(w) : s[i + k - 1] = w[k]

Includes(s, w) == \E i \in 1..(Len(s) + 1) : StartsWithAt(s, i, w)

RECURSIVE Flatten(_)
Flatten(ss) == IF ss = <<>> THEN <<>> ELSE Head(ss) \o Flatten(Tail(ss))

RECURSIVE SeqsUpTo(_, _)
SeqsUpTo(S, n) ==
    IF n = 0 THEN {<<>>}
    ELSE LET shorter == SeqsUpTo(S, n - 1)
         IN  shorter \cup {Append(q, x) : q \in shorter, x \in S}

(***************************************************************************)
(* searchEmails: the queries it sends.                                    *)
(***************************************************************************)
OpNewerThan == <<"n", "e", "w", "e", "r", "_", "t", "h", "a", "n">>
OpOlderThan == <<"o", "l", "d", "e", "r", "_", "t", "h", "a", "n">>
OpAfter == <<"a", "f", "t", "e", "r">>
OpBefore == <<"b", "e", "f", "o", "r", "e">>
OpFrom == <<"f", "r", "o", "m">>
OpTo == <<"t", "o">>
OpSubject == <<"s", "u", "b", "j", "e", "c", "t">>
OpIn == <<"i", "n">>
OpHas == <<"h", "a", "s">>
OpIs == <<"i", "s">>
OpLabel == <<"l", "a", "b", "e", "l">>

\* The alternation of the regular expression of line 222.
OperatorNames ==
    {OpNewerThan, OpOlderThan, OpAfter, OpBefore, OpFrom, OpTo, OpSubject,
     OpIn, OpHas, OpIs, OpLabel}

\* /(newer_than|...|label):[^\s]+/ matches at position i with name n: the name,
\* a colon, and at least one character that is not white space.
OperatorMatchAt(q, i, n) ==
    /\ StartsWithAt(q, i, n \o <<":">>)
    /\ i + Len(n) + 1 <= Len(q)
    /\ ~IsSpace(q[i + Len(n) + 1])

\* operators.length > 0 (lines 222-223).  HasOperatorsNoValue is the test the
\* code would make if the expression ended at the colon.
HasOperatorsNoValue(q) ==
    \E i \in 1..Len(q), n \in OperatorNames : StartsWithAt(q, i, n \o <<":">>)

HasOperators(q) ==
    \E i \in 1..Len(q), n \in OperatorNames : OperatorMatchAt(q, i, n)

Quote == "\""

\* const searchQuery = operators.length > 0 ? query : `"${query}"` (line 223).
Tier1Query(q) == IF HasOperators(q) THEN q ELSE <<Quote>> \o q \o <<Quote>>

\* query.replace(/[():"]/g, ' ') (line 233).
CleanQuery(q) ==
    IF q = <<>> THEN <<>>
    ELSE [i \in 1..Len(q) |-> IF q[i] \in {"(", ")", ":", Quote} THEN " " ELSE q[i]]

\* String.prototype.split(' '): the pieces between single spaces, empty ones kept.
RECURSIVE SplitOnSpace(_)
SplitOnSpace(s) ==
    IF \A i \in 1..Len(s) : s[i] # " " THEN <<s>>
    ELSE LET i == CHOOSE k \in 1..Len(s) :
                      s[k] = " " /\ \A j \in 1..(k - 1) : s[j] # " "
         IN  <<SubSeq(s, 1, i - 1)>> \o SplitOnSpace(SubSeq(s, i + 1, Len(s)))

RECURSIVE JoinWith(_, _)
JoinWith(pieces, sep) ==
    IF pieces = <<>> THEN <<>>
    ELSE IF Len(pieces) = 1 THEN pieces[1]
    ELSE pieces[1] \o sep \o JoinWith(Tail(pieces), sep)

OrSeparator == <<" ", "O", "R", " ">>

\* cleanQuery.split(' ').filter(term => term.length > 1).join(' OR ')
\* (lines 233-236).
Tier2Query(q) ==
    JoinWith(SelectSeq(SplitOnSpace(CleanQuery(q)), LAMBDA t : Len(t) > 1),
             OrSeparator)

\* maxResults of both list calls (lines 228 and 241).
MaxResults == 8

\* "Limit to 5 emails for efficiency" (line 268).
MaxEmails == 5

(***************************************************************************)
(* parseEmailData (lines 281-310).  A raw message is                      *)
(* [headers, payload, snippet]; a part of the payload tree is             *)
(* [data, parts], data being the text that decoding the base64 body       *)
(* yields.  A summary is the record of the four lines of the text block   *)
(* "From: ..\nSubject: ..\nDate: ..\nContent: ..".                         *)
(***************************************************************************)
ControlChars == {"\n", "\t", "<ctl>"}

\* content.replace(/[\u0000-\u001F\u007F-\u009F]/g, "")
StripControl(t) == SelectSeq(t, LAMBDA c : c \notin ControlChars)

RECURSIVE TrimLeft(_)
TrimLeft(t) == IF t # <<>> /\ IsSpace(Head(t)) THEN TrimLeft(Tail(t)) ELSE t

RECURSIVE TrimRight(_)
TrimRight(t) ==
    IF t # <<>> /\ IsSpace(t[Len(t)]) THEN TrimRight(SubSeq(t, 1, Len(t) - 1)) ELSE t

Trim(t) == TrimRight(TrimLeft(t))

\* getBodyContent (lines 288-300): this part's decoded data, then its sub-parts.
RECURSIVE GetBodyContent(_)
RECURSIVE GetBodyContentAll(_)
GetBodyContent(part) ==
    (IF TruthyChars(part.data) THEN StripControl(part.data[1]) \o <<"\n">> ELSE <<>>)
        \o GetBodyContentAll(part.parts)
GetBodyContentAll(parts) ==
    IF parts = <<>> THEN <<>>
    ELSE GetBodyContent(Head(parts)) \o GetBodyContentAll(Tail(parts))

\* headers.find((h) => h.name === name)?.value || fallback
HeaderOr(headers, name, fallback) ==
    LET hits == SelectSeq(headers, LAMBDA h : h.name = name)
    IN  IF hits # <<>> /\ hits[1].value # <<>> THEN hits[1].value ELSE fallback

SnippetLength == 200

Ellipsis == "..."

NoContentAvailable == <<"No content available">>

\* body.trim() || emailData.snippet || "No content available" (line 304).
\* BodyOrNothing is the fallback without the snippet.
BodyOrNothing(trimmed, snippet) == IF trimmed # <<>> THEN trimmed ELSE NoContentAvailable

BodyOr(trimmed, snippet) ==
    IF trimmed # <<>> THEN trimmed
    ELSE IF snippet # <<>> THEN snippet
    ELSE NoContentAvailable

\* Lines 286-304: the body text of a raw message.
BodyOf(raw) ==
    BodyOr(Trim(IF raw.payload # None THEN GetBodyContent(raw.payload[1]) ELSE <<>>),
           raw.snippet)

\* body.length > 200 ? body.slice(0, 200) + "..." : body (line 305).
\* SnippetFrom200 cuts a body of 200 characters already.
SnippetFrom200(body) ==
    IF Len(body) >= SnippetLength
    THEN SubSeq(body, 1, SnippetLength) \o <<Ellipsis>>
    ELSE body

Snippet(body) ==
    IF Len(body) > SnippetLength
    THEN SubSeq(body, 1, SnippetLength) \o <<Ellipsis>>
    ELSE body

\* emailData.payload?.headers || [] (line 282).
HeadersOf(raw) == IF raw.payload # None THEN raw.headers ELSE <<>>

ParseEmailData(raw) ==
    [kind |-> "email",
     from |-> HeaderOr(HeadersOf(raw), "From", <<"Unknown Sender">>),
     subject |-> HeaderOr(HeadersOf(raw), "Subject", <<"No Subject">>),
     date |-> HeaderOr(HeadersOf(raw), "Date", <<"No Date">>),
     content |-> Snippet(BodyOf(raw)),
     category |-> <<>>, currency |-> "", total |-> 0]

(***************************************************************************)
(* calculateSum (lines 315-410).  The scanned text is a sequence of       *)
(* atoms: a currency marker, a number, a keyword, a space or another      *)
(* word is one atom each.                                                 *)
(***************************************************************************)
RupeeSign == "U+20B9"

\* /₹|Rs\.?|INR|USD|\$/
CurrencyMarkers == {RupeeSign, "Rs.", "Rs", "INR", "USD", "$"}

\* The patterns carry the flag i (lines 321-334): a marker in another case
\* matches them too.
OtherCaseMarkers == {"rs.", "usd"}

\* fullMatch.match(/₹|Rs\.?|INR|USD|\$/) || [''] (lines 368-369): this
\* expression has no flag i, a marker in another case gives ''.
CurrencySymbol(marker) == IF marker \in CurrencyMarkers THEN marker ELSE ""

NaN == -1

\* parseFloat(match[1].replace(/,/g, '')) of the number atoms of the model;
\* an atom that is no [0-9,]+(\.[0-9]+)? text has no entry.
NumberAtoms == {"4500", "3200", "1,000", "250", ","}

ParseFloat(a) ==
    CASE a = "4500" -> 4500
      [] a = "3200" -> 3200
      [] a = "1,000" -> 1000
      [] a = "250" -> 250
      [] OTHER -> NaN

FlightKeywords == {"total", "amount", "fare", "price", "cost"}
SubscriptionKeywords == {"monthly", "yearly", "annual", "subscription", "plan", "fee"}

RECURSIVE SkipWhile(_, _, _)
SkipWhile(t, i, S) == IF i <= Len(t) /\ t[i] \in S THEN SkipWhile(t, i + 1, S) ELSE i

\* (?:₹|Rs\.?|INR|USD|\$)\s*([0-9,]+(?:\.[0-9]+)?) matches at atom i.
MoneyAt(t, i) ==
    /\ i <= Len(t)
    /\ t[i] \in CurrencyMarkers \cup OtherCaseMarkers
    /\ LET j == SkipWhile(t, i + 1, {" "}) IN j <= Len(t) /\ t[j] \in NumberAtoms

MoneyMatch(t, i) ==
    LET j == SkipWhile(t, i + 1, {" "}) IN [currency |-> CurrencySymbol(t[i]), amount |-> t[j], last |-> j]

\* matchAll of the bare pattern; with eatNext the pattern ends in (?:[^0-9]|$),
\* which consumes the character after the number.
RECURSIVE ScanMoney(_, _, _)
ScanMoney(t, i, eatNext) ==
    IF i > Len(t) THEN <<>>
    ELSE IF MoneyAt(t, i)
         THEN LET m == MoneyMatch(t, i)
              IN  <<m>> \o ScanMoney(t, m.last + (IF eatNext THEN 2 ELSE 1), eatNext)
         ELSE ScanMoney(t, i + 1, eatNext)

\* matchAll of (?:kw1|kw2|...)(?:[:\s])*(?:currency)\s*(number).
RECURSIVE ScanKeyword(_, _, _)
ScanKeyword(t, i, kws) ==
    IF i > Len(t) THEN <<>>
    ELSE LET j == SkipWhile(t, i + 1, {":", " "})
         IN  IF t[i] \in kws /\ MoneyAt(t, j)
             THEN LET m == MoneyMatch(t, j)
                  IN  <<m>> \o ScanKeyword(t, m.last + 1, kws)
             ELSE ScanKeyword(t, i + 1, kws)

KeyDefault == <<"d", "e", "f", "a", "u", "l", "t">>
KeyFlight == <<"f", "l", "i", "g", "h", "t">>
KeySubscription == <<"s", "u", "b", "s", "c", "r", "i", "p", "t", "i", "o", "n">>

\* Object.keys(patterns).find(key => category.toLowerCase().includes(key)) || 'default'
\* CategoryKeyFlightFallback falls back to the flight patterns instead.
CategoryKeyFlightFallback(category) ==
    LET c == ToLowerCase(category)
    IN  IF Includes(c, KeyDefault) THEN "default"
        ELSE IF Includes(c, KeySubscription) THEN "subscription"
        ELSE "flight"

CategoryKey(category) ==
    LET c == ToLowerCase(category)
    IN  IF Includes(c, KeyDefault) THEN "default"
        ELSE IF Includes(c, KeyFlight) THEN "flight"
        ELSE IF Includes(c, KeySubscription) THEN "subscription"
        ELSE "default"

\* All matches of the patterns of the key, pattern by pattern (lines 362-363).
MatchesOf(key, t) ==
    CASE key = "flight" -> ScanKeyword(t, 1, FlightKeywords) \o ScanMoney(t, 1, TRUE)
      [] key = "subscription" ->
            ScanKeyword(t, 1, SubscriptionKeywords) \o ScanMoney(t, 1, TRUE)
      [] OTHER -> ScanMoney(t, 1, FALSE)

\* lines.find(l => l.startsWith('Content:')) of email.split('\n') (lines 351,
\* 356): of a content of several lines the first is read.
RECURSIVE FirstLine(_)
FirstLine(t) ==
    IF t = <<>> \/ Head(t) = "\n" THEN <<>> ELSE <<Head(t)>> \o FirstLine(Tail(t))

\* `${subject} ${content}` of a text block; a block without those lines (the
\* CALCULATED SUM line) gives " ".
SearchText(email) ==
    IF email.kind = "email" THEN email.subject \o <<" ">> \o FirstLine(email.content)
    ELSE <<" ">>

RECURSIVE AllMatches(_, _)
AllMatches(emails, key) ==
    IF emails = <<>> THEN <<>>
    ELSE MatchesOf(key, SearchText(Head(emails))) \o AllMatches(Tail(emails), key)

RECURSIVE SumAmounts(_)
SumAmounts(ms) ==
    IF ms = <<>> THEN 0
    ELSE (IF ParseFloat(Head(ms).amount) # NaN THEN ParseFloat(Head(ms).amount) ELSE 0)
             + SumAmounts(Tail(ms))

CountOf(ms, cur) == Cardinality({i \in 1..Len(ms) : ms[i].currency = cur})

\* The first currency, in order of first occurrence, with the greatest count
\* (lines 397-403); "" when there is no match.
DominantCurrency(ms) ==
    IF ms = <<>> THEN ""
    ELSE LET best == CHOOSE i \in 1..Len(ms) :
                        /\ \A j \in 1..Len(ms) :
                              CountOf(ms, ms[j].currency) <= CountOf(ms, ms[i].currency)
                        /\ \A j \in 1..(i - 1) :
                              CountOf(ms, ms[j].currency) < CountOf(ms, ms[i].currency)
         IN  ms[best].currency

CalculateSum(emails, category) ==
    LET ms == AllMatches(emails, CategoryKey(category))
        dominant == DominantCurrency(ms)
    IN  [total |-> SumAmounts(ms),
         currency |-> IF dominant # "" THEN dominant ELSE RupeeSign,
         details |-> SelectSeq(ms, LAMBDA m : ParseFloat(m.amount) # NaN)]

\* `CALCULATED SUM: Based on the emails, the total ${category} amount is
\* ${currency}${total}` (lines 513-516).
SumLine(category, sumResult) ==
    [kind |-> "sum", from |-> <<>>, subject |-> <<>>, date |-> <<>>, content |-> <<>>,
     category |-> category, currency |-> sumResult.currency, total |-> sumResult.total]

(***************************************************************************)
(* Errors, plans and the state of one request.                            *)
(***************************************************************************)
\* What the handlers read of a thrown value: error.status, error.error?.type and
\* whether error.message includes "Overloaded" (lines 106-108); error.code and
\* whether error.errors[0].message includes "Metadata scope" (lines 587-588).
Err(kind, status, errType, mentionsOverloaded, code, metadataScope) ==
    [kind |-> kind, status |-> status, errType |-> errType,
     mentionsOverloaded |-> mentionsOverloaded, code |-> code,
     metadataScope |-> metadataScope]

ErrPlain(kind) == Err(kind, 0, "", FALSE, 0, FALSE)

NoError == ErrPlain("none")

\* new Error("Failed to parse agent response as JSON: " + responseText), line 146:
\* the message holds the response text.
ParseError(textMentionsOverloaded) ==
    Err("parse", 0, "", textMentionsOverloaded, 0, FALSE)

NoFinalFlag == [kind |-> "absent", b |-> FALSE, finalAnswer |-> None]

\* interface AgentPlan (lines 26-39); final is a boolean or, in the nested shape,
\* an object.
Plan(action, query, finalAnswer, sumCategory, final, search, refine, sum) ==
    [action |-> action, query |-> query, finalAnswer |-> finalAnswer,
     sumCategory |-> sumCategory, final |-> final, search |-> search,
     refine |-> refine, sum |-> sum]

EmptyPlan == Plan(None, None, None, None, NoFinalFlag, None, None, None)

\* The answer of the forced Final (line 96) and of exhausted retries (line 133),
\* and the answers after the loop (line 538) and of the POST handler.
ForcedAnswer == "Based on the available emails, I couldn't find specific information about your query. Please try a different search term."
ApologyAnswer == "I'm having trouble processing your request. Based on the available information, I couldn't determine a specific answer."
FoundSomeAnswer == "I found some potentially relevant emails but couldn't determine a specific answer. Please review these emails for the information you're looking for."
ScopeAnswer == "Authentication error: Please re-authenticate with full email access permissions."
ErrorAnswer == "An error occurred while processing your query."

\* The answers of the POST handler of the one-shot route
\* (src/src/app/api/query/route.ts lines 267 and 323).
NoEmailsAnswer == "No emails found matching your query."
SearchErrorAnswer == "An error occurred while searching your emails."

ApologyPlan ==
    Plan(Some("final"), None, Some(ApologyAnswer), None, NoFinalFlag, None, None, None)

NoPrompt ==
    [previous |-> {}, emails |-> <<>>, forceFinal |-> FALSE, iteration |-> 0, suffixes |-> 0]

\* The token field of the request body (line 551).
Token(present, accessToken, refreshToken) ==
    [present |-> present, accessToken |-> accessToken, refreshToken |-> refreshToken]

NoToken == Token(FALSE, None, None)

\* One request.  The fields after "history" record what happened and are read by
\* no operation.
InitSession ==
    [pc |-> "idle",
     mode |-> "request",
     token |-> NoToken,
     \* agentSolveQuery
     currentEmails |-> <<>>, allProcessedEmails |-> <<>>, iterations |-> 0,
     \* callAgent and callAgentWithRetry
     prompt |-> NoPrompt, retries |-> 0, maxRetries |-> 0, forceFinal |-> FALSE,
     delay |-> 0,
     \* searchEmails
     query |-> <<>>, cont |-> "none", category |-> <<>>, messages |-> <<>>, idx |-> 0,
     processedIds |-> {}, emails |-> <<>>,
     \* the HTTP response, or what a direct call gave
     status |-> 0, answer |-> None, outEmails |-> <<>>, errorField |-> None,
     message |-> None, error |-> NoError,
     \* history
     decides |-> 0, mailLog |-> <<>>, searched |-> {},
     repeated |-> FALSE, ownDecided |-> {}, consultOK |-> TRUE,
     gwAttempts |-> 0, gwOverloads |-> 0, gwOutcome |-> "none", gwPlan |-> EmptyPlan,
     lastText |-> "none", lastPlan |-> EmptyPlan, dispatched |-> None,
     finalTags |-> 0, afterLoop |-> FALSE, clearedByOther |-> FALSE,
     seen |-> FALSE, refreshes |-> 0, refreshFailed |-> FALSE,
     given |-> <<>>, sumResults |-> <<>>, guard |-> "none",
     gwSignals |-> 0, gwSleeps |-> 0, gwReinvokes |-> 0, authUsed |-> {},
     searchCalls |-> 0,
     \* the one-shot route: query of the request body, dynamicParams, and the
     \* emailContent of llmExtractInfo
     userQuery |-> <<>>, dynamicParams |-> <<>>, emailContent |-> <<>>]

\* The record of the last reasoning step is dropped when the request moves on.
Forget(st) ==
    [st EXCEPT !.gwAttempts = 0, !.gwOverloads = 0, !.gwOutcome = "none",
               !.gwPlan = EmptyPlan, !.lastText = "none", !.lastPlan = EmptyPlan,
               !.dispatched = None, !.gwSignals = 0, !.gwSleeps = 0, !.gwReinvokes = 0]

First(list, n) == SubSeq(list, 1, IF Len(list) < n THEN Len(list) ELSE n)

Min(a, b) == IF a < b THEN a ELSE b

RECURSIVE Pow2(_)
Pow2(n) == IF n = 0 THEN 1 ELSE 2 * Pow2(n - 1)

(***************************************************************************)
(* POST: the responses (lines 553-606).                                   *)
(***************************************************************************)
\* The catch block of POST (lines 584-606).  CatchStatusByCode is a catch block
\* that looks at error.code alone.
CatchStatusByCode(e) == IF e.code = 403 THEN 403 ELSE 500

CatchStatus(e) == IF e.code = 403 /\ e.metadataScope THEN 403 ELSE 500

\* The locals of agentSolveQuery, callAgentWithRetry and searchEmails end with
\* the response.
LeaveRequest(st) ==
    [st EXCEPT !.pc = "done", !.currentEmails = <<>>,
               !.allProcessedEmails = <<>>, !.prompt = NoPrompt, !.retries = 0,
               !.maxRetries = 0, !.forceFinal = FALSE, !.delay = 0, !.query = <<>>,
               !.cont = "none", !.category = <<>>, !.messages = <<>>, !.idx = 0,
               !.processedIds = {}, !.emails = <<>>, !.mailLog = <<>>,
               !.searched = {}, !.ownDecided = {}, !.authUsed = {},
               !.searchCalls = 0, !.userQuery = <<>>, !.dynamicParams = <<>>,
               !.emailContent = <<>>]

Respond401(st) ==
    [LeaveRequest(st) EXCEPT !.status = 401, !.message = Some("Authentication required")]

Respond200(st, answer, emails) ==
    [LeaveRequest(st) EXCEPT !.status = 200, !.answer = Some(answer), !.outEmails = emails]

\* A throw inside POST reaches its catch block; a throw of a direct call of
\* searchEmails reaches its caller.
Throw(st, e) ==
    IF st.mode = "call"
    THEN [st EXCEPT !.pc = "raised", !.error = e]
    ELSE IF CatchStatus(e) = 403
         THEN [LeaveRequest(st) EXCEPT
                         !.status = 403, !.answer = Some(ScopeAnswer),
                         !.errorField = Some("Insufficient OAuth scopes"), !.error = e]
         ELSE [LeaveRequest(st) EXCEPT
                         !.status = 500,
                         !.answer = Some(IF st.mode = "oneshot" THEN SearchErrorAnswer
                                         ELSE ErrorAnswer),
                         !.errorField = Some(e.kind), !.error = e]

(***************************************************************************)
(* agentSolveQuery: the head and the foot of one iteration.               *)
(***************************************************************************)
MaxIterations == 5

DefaultMaxRetries == 3

\* const forceFinal = iterations === maxIterations - 1 (line 432).
\* IsLastIterationEarly is the test that holds one iteration too early,
\* IsLastIterationNever the one that never holds.
IsLastIterationNever(iterations) == FALSE

IsLastIterationEarly(iterations) == iterations = MaxIterations - 2

IsLastIteration(iterations) == iterations = MaxIterations - 1

\* Lines 430-444, callAgent (lines 155-211) and the entry of callAgentWithRetry up
\* to its first reasoning call (lines 44-52).  pq is previousQueries.
BeginIteration(st, pq) ==
    LET force == IsLastIteration(st.iterations)
        shown == IF st.currentEmails = <<>> /\ st.allProcessedEmails # <<>>
                 THEN First(st.allProcessedEmails, 5)
                 ELSE st.currentEmails
    IN  [Forget(st) EXCEPT
                   !.pc = "llm",
                   !.mailLog = <<>>,
                   !.currentEmails = shown,
                   !.forceFinal = force,
                   !.prompt = [previous |-> pq, emails |-> shown, forceFinal |-> force,
                               iteration |-> st.iterations + 1, suffixes |-> 0],
                   !.retries = 0,
                   !.maxRetries = DefaultMaxRetries,
                   !.decides = st.decides + 1,
                   !.consultOK = st.consultOK /\ pq = st.ownDecided,
                   !.gwAttempts = 1, !.gwOverloads = 0, !.gwOutcome = "pending",
                   !.dispatched = st.dispatched]

\* The code after the loop (lines 535-543).
AfterLoop(st) ==
    LET st1 == [st EXCEPT !.afterLoop = TRUE]
    IN  IF st.allProcessedEmails # <<>>
        THEN Respond200(st1, FoundSomeAnswer, First(st.allProcessedEmails, 5))
        ELSE Throw(st1, ErrPlain("no_final_answer"))

\* iterations++ (line 532) and the loop test (line 430).
EndIteration(st, pq) ==
    LET st1 == [st EXCEPT !.iterations = st.iterations + 1]
    IN  IF st1.iterations < MaxIterations THEN BeginIteration(st1, pq) ELSE AfterLoop(st1)

\* The sum branch after its emails are there (lines 504-518).
\* DoSumAppending puts the CALCULATED SUM line at the end of the list.
DoSumAppending(st, pq) ==
    EndIteration([st EXCEPT !.currentEmails =
                                Append(st.currentEmails,
                                       SumLine(st.category,
                                               CalculateSum(st.currentEmails, st.category))),
                            !.category = <<>>],
                 pq)

DoSum(st, pq) ==
    LET sumResult == CalculateSum(st.currentEmails, st.category)
    IN  EndIteration([st EXCEPT !.currentEmails =
                                    <<SumLine(st.category, sumResult)>> \o st.currentEmails,
                                !.category = <<>>],
                     pq)

\* The search branch after searchEmails returned (lines 483-494).
\* AfterSearchForgetting keeps the results of the last search only.
AfterSearchForgetting(st, pq, searchResults) ==
    EndIteration([st EXCEPT !.allProcessedEmails = searchResults,
                            !.currentEmails = searchResults],
                 pq)

AfterSearch(st, pq, searchResults) ==
    LET all == st.allProcessedEmails \o searchResults
    IN  EndIteration([st EXCEPT !.allProcessedEmails = all,
                                !.currentEmails =
                                    IF searchResults = <<>> /\ all # <<>>
                                    THEN First(all, 5)
                                    ELSE searchResults],
                     pq)

(***************************************************************************)
(* searchEmails (lines 218-275), call by call.                            *)
(***************************************************************************)
ListCall(q) == [op |-> "list", q |-> q, maxResults |-> MaxResults, id |-> 0]

GetCall(id) == [op |-> "get", q |-> <<>>, maxResults |-> 0, id |-> id]

\* Lines 219-229: the first list call.  cont says who called: the search branch,
\* the sum branch, or a direct caller.
CallSearchEmails(st, q, cont) ==
    [st EXCEPT !.pc = "list1", !.query = q, !.cont = cont, !.messages = <<>>,
               !.idx = 0, !.processedIds = {}, !.emails = <<>>,
               !.mailLog = <<ListCall(Tier1Query(q))>>,
               !.searched = st.searched \cup {ToLowerCase(q)},
               !.searchCalls = st.searchCalls + 1,
               !.repeated = st.repeated \/ ToLowerCase(q) \in st.searched]

\* The frame of searchEmails (query, messages, processedMessageIds, emails)
\* ends when it returns into the loop.
LeaveSearch(st) ==
    [st EXCEPT !.query = <<>>, !.cont = "none", !.messages = <<>>, !.idx = 0,
               !.processedIds = {}, !.emails = <<>>]

\* searchEmails returns to its caller.
ReturnFromSearch(st, pq, results) ==
    CASE st.cont = "search" -> AfterSearch(LeaveSearch(st), pq, results)
      [] st.cont = "sum" -> DoSum([LeaveSearch(st) EXCEPT !.currentEmails = results], pq)
      [] OTHER -> [st EXCEPT !.pc = "returned", !.outEmails = results]

\* The for loop from position i (lines 254-271) up to its next get call.
\* FetchFromEvery is the loop without the processedIds test of line 255.
FetchFromEvery(st, pq, i) ==
    IF i > Len(st.messages) THEN ReturnFromSearch(st, pq, st.emails)
    ELSE [st EXCEPT !.pc = "get", !.idx = i,
                    !.processedIds = st.processedIds \cup {st.messages[i]},
                    !.mailLog = Append(st.mailLog, GetCall(st.messages[i]))]

FetchFrom(st, pq, i) ==
    LET fresh == {k \in i..Len(st.messages) : st.messages[k] \notin st.processedIds}
    IN  IF fresh = {} THEN ReturnFromSearch(st, pq, st.emails)
        ELSE LET k == CHOOSE x \in fresh : \A y \in fresh : x <= y
             IN  [st EXCEPT !.pc = "get", !.idx = k,
                            !.processedIds = st.processedIds \cup {st.messages[k]},
                            !.mailLog = Append(st.mailLog, GetCall(st.messages[k]))]

\* The first list call returns (lines 231-252).
OnList1(st0, pq, reply) ==
    LET st == Forget(st0) IN
    IF reply.err # NoError THEN Throw(st, reply.err)
    ELSE IF reply.ids = <<>>
         THEN [st EXCEPT !.pc = "list2",
                         !.mailLog = Append(st.mailLog, ListCall(Tier2Query(st.query)))]
         ELSE FetchFrom([st EXCEPT !.messages = reply.ids], pq, 1)

\* Neither list call reported a message: return [] (lines 245-248).
\* NoMessagesRaises is a search that raises instead.
NoMessagesRaises(st, pq) == Throw(st, ErrPlain("no_messages"))

NoMessages(st, pq) == ReturnFromSearch(st, pq, <<>>)

\* The fallback list call returns (lines 243-252).
OnList2(st0, pq, reply) ==
    LET st == Forget(st0) IN
    IF reply.err # NoError THEN Throw(st, reply.err)
    ELSE IF reply.ids = <<>> THEN NoMessages(st, pq)
    ELSE FetchFrom([st EXCEPT !.messages = reply.ids], pq, 1)

\* "Limit to 5 emails": emails.length >= 5 ends the loop (lines 267-270).
\* ReachedLimitAfterSix is the test off by one.
ReachedLimitAfterSix(emails) == Len(emails) >= MaxEmails + 1

ReachedLimit(emails) == Len(emails) >= MaxEmails

\* A get call returns (lines 258-270).
\* emails.push(emailData) and the limit (lines 266-270).
Push(st, pq, emailData) ==
    LET st1 == [st EXCEPT !.emails = Append(st.emails, emailData), !.seen = TRUE]
    IN  IF ReachedLimit(st1.emails) THEN ReturnFromSearch(st1, pq, st1.emails)
        ELSE FetchFrom(st1, pq, st.idx + 1)

OnGet(st0, pq, res) ==
    LET st == Forget(st0) IN
    IF res.err # NoError THEN Throw(st, res.err)
    ELSE Push(st, pq, ParseEmailData(res.raw))

(***************************************************************************)
(* agentSolveQuery: normalisation and dispatch of a plan (lines 447-531). *)
(***************************************************************************)
Falsy(o) == ~TruthyText(o)

\* Lines 449-474, in order.
\* plan.final === true && !plan.action (lines 450-452).  NormalizeFlagIgnored is
\* the loop without this rewrite.
NormalizeFlagIgnored(plan) == plan

NormalizeFlag(plan) ==
    IF plan.final.kind = "bool" /\ plan.final.b /\ Falsy(plan.action)
    THEN [plan EXCEPT !.action = Some("final")] ELSE plan

\* plan.search && plan.search.query && !plan.action (lines 455-458).
NormalizeSearch(plan) ==
    IF plan.search # None /\ TruthyChars(plan.search[1].query) /\ Falsy(plan.action)
    THEN [plan EXCEPT !.action = Some("search"), !.query = plan.search[1].query]
    ELSE plan

\* plan.refine && plan.refine.query && !plan.action (lines 460-463).
NormalizeRefine(plan) ==
    IF plan.refine # None /\ TruthyChars(plan.refine[1].query) /\ Falsy(plan.action)
    THEN [plan EXCEPT !.action = Some("refine"), !.query = plan.refine[1].query]
    ELSE plan

\* typeof plan.final === "object" && plan.final.finalAnswer !== undefined &&
\* !plan.action (lines 465-474).
NormalizeFinalObject(plan) ==
    IF plan.final.kind = "object" /\ plan.final.finalAnswer # None /\ Falsy(plan.action)
    THEN [plan EXCEPT !.action = Some("final"), !.finalAnswer = plan.final.finalAnswer]
    ELSE plan

Normalize(plan) ==
    NormalizeFinalObject(NormalizeRefine(NormalizeSearch(NormalizeFlag(plan))))

DefaultText == <<"d", "e", "f", "a", "u", "l", "t">>

\* plan.sumCategory || plan.query || "default" (line 499).
SumSearchQuery(plan) ==
    IF TruthyChars(plan.sumCategory) THEN plan.sumCategory[1]
    ELSE IF TruthyChars(plan.query) THEN plan.query[1]
    ELSE DefaultText

\* plan.sumCategory || (plan.sum && plan.sum.category) || "default" (lines 505-507).
SumCategory(plan) ==
    IF TruthyChars(plan.sumCategory) THEN plan.sumCategory[1]
    ELSE IF plan.sum # None /\ TruthyChars(plan.sum[1].category) THEN plan.sum[1].category[1]
    ELSE DefaultText

\* `emails: currentEmails || []` of the Final branch (line 524).
FinalEmails(st) == st.currentEmails

\* The plan callAgent returned is normalised and dispatched (lines 447-531).
\* if (plan.finalAnswer), line 520.  FinalAnswerDefined is the test for
\* undefined only, which lets an empty answer through.
FinalAnswerDefined(plan) == plan.finalAnswer # None

FinalAnswerGiven(plan) == TruthyText(plan.finalAnswer)

\* The last else of the dispatch (lines 528-530).  UnrecognizedSkipped is a loop
\* that goes on to its next iteration instead of throwing.
UnrecognizedSkipped(st, pq) == EndIteration(st, pq)

Unrecognized(st, pq) == Throw(st, ErrPlain("unrecognized_action"))

DispatchNormalized(st, pq, plan) ==
    LET st1 == [st EXCEPT !.dispatched = Some(plan)]
    IN  CASE plan.action \in {Some("search"), Some("refine")} ->
                IF ~TruthyChars(plan.query) THEN Throw(st1, ErrPlain("missing_query"))
                ELSE CallSearchEmails(st1, plan.query[1], "search")
          [] plan.action = Some("sum") ->
                IF st1.currentEmails = <<>>
                THEN CallSearchEmails([st1 EXCEPT !.category = SumCategory(plan)],
                                      SumSearchQuery(plan), "sum")
                ELSE DoSum([st1 EXCEPT !.category = SumCategory(plan)], pq)
          [] plan.action = Some("final") ->
                IF FinalAnswerGiven(plan)
                THEN Respond200(st1, plan.finalAnswer[1], FinalEmails(st1))
                ELSE Throw(st1, ErrPlain("missing_final_answer"))
          [] OTHER -> Unrecognized(st1, pq)

Dispatch(st, pq, plan) == DispatchNormalized(st, pq, Normalize(plan))

(***************************************************************************)
(* callAgentWithRetry (lines 44-135).                                     *)
(***************************************************************************)
\* Lines 106-108.
\* IsOverloadedAlways is a gateway that takes every error for the overload
\* signal.
IsOverloadedAlways(e) == TRUE

IsOverloaded(e) ==
    e.status = 529 \/ e.errType = "overloaded_error" \/ e.mentionsOverloaded

\* callAgent hands the plan of callAgentWithRetry to the loop (lines 100, 211, 444).
\* The frame of callAgentWithRetry (prompt, retries, maxRetries) ends here.
LeaveGateway(st) ==
    [st EXCEPT !.prompt = NoPrompt, !.retries = 0, !.maxRetries = 0, !.delay = 0]

GatewayReturn(st, pq, plan) ==
    Dispatch([LeaveGateway(st) EXCEPT !.gwOutcome = "plan", !.gwPlan = plan], pq, plan)

\* A throw of callAgentWithRetry leaves callAgent and agentSolveQuery.
GatewayThrow(st, e) == Throw([LeaveGateway(st) EXCEPT !.gwOutcome = "raised"], e)

\* The plan of exhausted retries (lines 129-134).  ExhaustedRaises is a gateway
\* that throws once its retries are used up.
ExhaustedRaises(st, pq) == GatewayThrow(st, ErrPlain("overloaded"))

Exhausted(st, pq) == GatewayReturn(st, pq, ApologyPlan)

BackoffCap == 10000

\* Math.min(1000 * Math.pow(2, retries) + Math.random() * 1000, 10000), line 123.
\* BackoffDelayLinear is a delay whose base grows by 1000 ms for each failure.
BackoffDelayLinear(retries, jitter) == Min(1000 * retries + jitter, BackoffCap)

BackoffDelay(retries, jitter) == Min(1000 * Pow2(retries) + jitter, BackoffCap)

\* retries >= maxRetries (line 117).  GivesUpLater allows one attempt more.
GivesUpLater(retries, maxRetries) == retries > maxRetries

GivesUp(retries, maxRetries) == retries >= maxRetries

\* The catch block (lines 102-126).
Catch(st, pq, e, jitter) ==
    IF ~IsOverloaded(e) THEN GatewayThrow(st, e)
    ELSE LET st1 == [st EXCEPT !.retries = st.retries + 1,
                               !.gwSignals = st.gwSignals + 1]
         IN  IF GivesUp(st1.retries, st1.maxRetries) THEN Exhausted(st1, pq)
             ELSE [st1 EXCEPT !.pc = "backoff",
                              !.delay = BackoffDelay(st1.retries, jitter),
                              !.gwSleeps = st.gwSleeps + 1]

\* Lines 91-98.  ForceFinalKeepingTag is a gateway that ignores forceFinal;
\* ForceFinalGeneric one that always puts its own answer.
ForceFinalKeepingTag(plan) == plan

ForceFinalGeneric(plan) ==
    IF plan.action # Some("final")
    THEN [plan EXCEPT !.action = Some("final"), !.finalAnswer = Some(ForcedAnswer)]
    ELSE plan

ForceFinal(plan) ==
    IF plan.action # Some("final")
    THEN [plan EXCEPT !.action = Some("final"),
                      !.finalAnswer = IF Falsy(plan.finalAnswer)
                                      THEN Some(ForcedAnswer) ELSE plan.finalAnswer]
    ELSE plan

\* The test of line 80: a search or refine plan with a query.
CarriesQuery(plan) ==
    plan.action \in {Some("search"), Some("refine")} /\ TruthyChars(plan.query)

\* previousQueries.has(plan.query.toLowerCase()), line 81.
AlreadyTried(plan, pq) == CarriesQuery(plan) /\ ToLowerCase(plan.query[1]) \in pq

\* A parsed plan (lines 79-100): the value is [st, pq], pq being previousQueries
\* after it.
OnPlan(st, pq, plan) ==
    LET st0 == IF CarriesQuery(plan)
               THEN [st EXCEPT !.consultOK = st.consultOK /\ pq = st.ownDecided]
               ELSE st
    IN  IF AlreadyTried(plan, pq)
        THEN \* line 84: a new call with the longer prompt and the retries left
             [st |-> [st0 EXCEPT !.pc = "llm",
                                 !.prompt.suffixes = st.prompt.suffixes + 1,
                                 !.maxRetries = st.maxRetries - st.retries,
                                 !.retries = 0,
                                 !.gwAttempts = st.gwAttempts + 1,
                                 !.gwReinvokes = st.gwReinvokes + 1],
              pq |-> pq]
        ELSE LET pq1 == IF CarriesQuery(plan)
                        THEN pq \cup {ToLowerCase(plan.query[1])} ELSE pq
                 st1 == IF CarriesQuery(plan)
                        THEN [st0 EXCEPT !.ownDecided =
                                             st.ownDecided \cup {ToLowerCase(plan.query[1])}]
                        ELSE st0
                 out == IF st.forceFinal THEN ForceFinal(plan) ELSE plan
             IN  [st |-> GatewayReturn(st1, pq1, out), pq |-> pq1]

\* What a response of the reasoning service is: a thrown error, a message without
\* a text block, or a text that is or is not JSON.
Response(kind, err, mentionsOverloaded, plan) ==
    [kind |-> kind, err |-> err, mentionsOverloaded |-> mentionsOverloaded, plan |-> plan]

\* One reasoning call of callAgentWithRetry completes (lines 52-126).
\* What the try block throws for a response (lines 52-77), NoError when it
\* parses a plan.
Thrown(resp) ==
    CASE resp.kind \in {"overload", "error"} -> resp.err
      [] resp.kind = "notext" -> ErrPlain("No text content in agent response")
      [] resp.kind = "nonjson" -> ParseError(resp.mentionsOverloaded)
      [] OTHER -> NoError

\* The response as the history keeps it.
Noted(st, resp) ==
    [st EXCEPT !.lastText = resp.kind, !.lastPlan = resp.plan,
               !.gwOverloads = st.gwOverloads + (IF resp.kind = "overload" THEN 1 ELSE 0),
               !.finalTags = st.finalTags
                   + (IF resp.kind = "json" /\ Normalize(resp.plan).action = Some("final")
                      THEN 1 ELSE 0)]

OnResponse(st, pq, resp, e, jitter) ==
    IF e # NoError THEN [st |-> Catch(st, pq, e, jitter), pq |-> pq]
    ELSE OnPlan(st, pq, resp.plan)

OnLlm(st, pq, resp, jitter) == OnResponse(Noted(st, resp), pq, resp, Thrown(resp), jitter)

\* The sleep of line 125 ends and the loop makes its next call (line 52).
OnBackoff(st) ==
    [st EXCEPT !.pc = "llm", !.delay = 0, !.gwAttempts = st.gwAttempts + 1]

(***************************************************************************)
(* POST (lines 549-607).                                                  *)
(***************************************************************************)
\* decodeURIComponent: a lone "%" is malformed and throws; "%2F" decodes to "/".
DecodeFails(t) == t = "%"

DecodeURIComponent(t) == IF t = "rt%2F1" THEN "rt/1" ELSE t

\* oauth2Client.credentials: the access token, the refresh token, and whether
\* the identity provider issued them in answer to a refresh.
Credentials(accessToken, refreshToken, refreshed) ==
    [access_token |-> accessToken, refresh_token |-> refreshToken, refreshed |-> refreshed]

NoCredentials == Credentials(None, "", FALSE)

\* oauth2Client.setCredentials({access_token, refresh_token}) (lines 562-565),
\* reached when the token holds a refresh token that can be decoded.
CredentialsOnRequest(cred, tok) ==
    IF tok.present /\ TruthyText(tok.refreshToken) /\ ~DecodeFails(tok.refreshToken[1])
    THEN Credentials(tok.accessToken, DecodeURIComponent(tok.refreshToken[1]), FALSE)
    ELSE cred

\* oauth2Client.setCredentials(newToken.credentials) (line 570): the credentials
\* the identity provider issued for the refresh token that the client held when
\* refreshAccessToken was called (line 569, right after lines 562-565).
CredentialsOnRefresh(cred, tok, err) ==
    IF err = NoError
    THEN Credentials(tok.accessToken, DecodeURIComponent(tok.refreshToken[1]), TRUE)
    ELSE cred

\* Lines 550-569, up to the refresh call.
OnRequest(st, tok) ==
    LET st1 == [st EXCEPT !.token = tok]
    IN  IF ~tok.present THEN Respond401(st1)
        ELSE IF ~TruthyText(tok.refreshToken)
             THEN Throw(st1, ErrPlain("Refresh token is missing!"))
        ELSE IF DecodeFails(tok.refreshToken[1])
             THEN Throw(st1, ErrPlain("URI malformed"))
        ELSE IF DecodeURIComponent(tok.refreshToken[1]) = ""
             THEN Throw(st1, ErrPlain("Refresh token is still missing after setting credentials."))
        ELSE [st1 EXCEPT !.pc = "refresh", !.refreshes = st.refreshes + 1]

\* Lines 569-577 and the head of agentSolveQuery (lines 417-428): the value is
\* [st, pq]; a successful refresh starts the loop, which resets previousQueries.
StartSolve(st, pq) == [st |-> BeginIteration(st, {}), pq |-> {}]

\* await oauth2Client.refreshAccessToken() rejects (line 569).
\* RefreshFailureIgnored is a handler that goes on with the old credentials.
RefreshFailureIgnored(err) == FALSE

RefreshFailed(err) == err # NoError

OnRefresh(st0, pq, err) ==
    LET st == [st0 EXCEPT !.refreshFailed = err # NoError] IN
    IF RefreshFailed(err) THEN [st |-> Throw(st, err), pq |-> pq]
    ELSE StartSolve([st EXCEPT !.currentEmails = <<>>, !.allProcessedEmails = <<>>,
                               !.iterations = 0],
                    pq)

(***************************************************************************)
(* The environment: what the caller, the identity provider, the reasoning *)
(* service and the mail store can answer.                                 *)
(***************************************************************************)
QA == <<"a">>
QAUpper == <<"A">>
Flights == <<"f", "l", "i", "g", "h", "t", "s">>

Tokens ==
    {NoToken,
     Token(TRUE, Some("at"), None),
     Token(TRUE, Some("at"), Some("")),
     Token(TRUE, Some("at"), Some("%")),
     Token(TRUE, Some("at"), Some("rt%2F1"))}

RefreshOutcomes == {NoError, Err("invalid_grant", 400, "", FALSE, 400, FALSE)}

\* The errors by which the reasoning service signals overload.
OverloadErrors ==
    {Err("overloaded", 529, "", FALSE, 0, FALSE),
     Err("overloaded", 0, "overloaded_error", FALSE, 0, FALSE),
     Err("Overloaded", 0, "", TRUE, 0, FALSE)}

OtherLlmErrors == {Err("api_error", 500, "api_error", FALSE, 0, FALSE)}

CanonicalPlans ==
    {Plan(Some("search"), q, None, None, NoFinalFlag, None, None, None) :
        q \in {None, Some(<<>>), Some(QA), Some(QAUpper)}}
    \cup {Plan(Some("refine"), Some(QA), None, None, NoFinalFlag, None, None, None),
          Plan(Some("refine"), Some(QA), Some("X"), None, NoFinalFlag, None, None, None)}
    \cup {Plan(Some("sum"), None, None, Some(Flights), NoFinalFlag, None, None, None),
          Plan(Some("sum"), Some(QA), None, None, NoFinalFlag, None, None, None)}
    \cup {Plan(Some("final"), None, f, None, NoFinalFlag, None, None, None) :
        f \in {None, Some(""), Some("X")}}
    \cup {Plan(Some("foo"), None, None, None, NoFinalFlag, None, None, None)}

FlagTrue == [kind |-> "bool", b |-> TRUE, finalAnswer |-> None]
FinalObject(f) == [kind |-> "object", b |-> FALSE, finalAnswer |-> f]

\* The shapes without an action field.
AlternatePlans ==
    {Plan(None, None, f, None, FlagTrue, None, None, None) :
        f \in {None, Some("X")}}
    \cup {Plan(None, None, None, None, FinalObject(Some("X")), None, None, None)}
    \cup {Plan(None, None, None, None, NoFinalFlag, Some([query |-> Some(QA)]), None, None),
          Plan(None, None, None, None, NoFinalFlag, None, Some([query |-> Some(QA)]), None),
          Plan(None, None, None, None, NoFinalFlag, None, None,
               Some([category |-> Some(Flights)])),
          EmptyPlan}

Responses ==
    {Response("overload", e, FALSE, EmptyPlan) : e \in OverloadErrors}
    \cup {Response("error", e, FALSE, EmptyPlan) : e \in OtherLlmErrors}
    \cup {Response("notext", NoError, FALSE, EmptyPlan)}
    \cup {Response("nonjson", NoError, m, EmptyPlan) : m \in BOOLEAN}
    \cup {Response("json", NoError, FALSE, p) : p \in CanonicalPlans \cup AlternatePlans}

\* Math.random() * 1000, to the millisecond below.
Jitters == {0, 999}

MailErrors ==
    {Err("Metadata scope", 403, "", FALSE, 403, TRUE),
     Err("forbidden", 403, "", FALSE, 403, FALSE),
     Err("backend", 500, "", FALSE, 500, FALSE)}

ListReply(err, ids) == [err |-> err, ids |-> ids]

\* List replies inside the agent loop: no match, and two matches of which one
\* is reported twice.
AgentReplies ==
    {ListReply(NoError, ids) : ids \in {<<>>, <<2, 2, 1>>}}
    \cup {ListReply(e, <<>>) : e \in MailErrors}

Header(name, value) == [name |-> name, value |-> value]

Part(data, parts) == [data |-> data, parts |-> parts]

\* The mailbox: message 1 has a two-part body, message 2 a payload without body
\* data and a snippet, every other message neither payload nor snippet.
Mailbox(id) ==
    CASE id = 1 ->
            [headers |-> <<Header("From", <<"airline">>), Header("Subject", <<"fare">>),
                           Header("Date", <<"Mon">>)>>,
             payload |-> Some(Part(None,
                            <<Part(Some(<<"total", " ", "Rs.", " ", "4500", "\n">>), <<>>),
                              Part(Some(<<"<ctl>">>), <<>>)>>)),
             snippet |-> <<"total">>]
      [] id = 2 ->
            [headers |-> <<Header("Subject", <<"receipt">>)>>,
             payload |-> Some(Part(None, <<>>)),
             snippet |-> <<"Rs.", " ", "3200">>]
      [] OTHER -> [headers |-> <<>>, payload |-> None, snippet |-> <<>>]

GetResult(err, raw) == [err |-> err, raw |-> raw]

GetOutcomes(id) ==
    {GetResult(NoError, Mailbox(id))}
    \cup {GetResult(e, Mailbox(0)) : e \in MailErrors}

(***************************************************************************)
(* The actions: one per completion of an awaited call.                    *)
(***************************************************************************)
\* A request is between the head of agentSolveQuery and its end.
InLoop(st) == st.mode = "request" /\ st.pc \in {"llm", "backoff", "list1", "list2", "get"}

\* google.gmail({version: "v1", auth: oauth2Client}) (line 573): a call of the
\* mail client is authorized with what oauth2Client.credentials holds when the
\* call is made.
Authorized(before, st) ==
    IF st.mailLog # <<>> /\ st.mailLog # before.mailLog
    THEN [st EXCEPT !.authUsed = @ \cup {credentials}]
    ELSE st

Put(s, st) == [sess EXCEPT ![s] = Authorized(sess[s], st)]

\* The request body has been read (line 551).
Request(s, T) ==
    /\ sess[s].pc = "idle"
    /\ sess[s].mode = "request"
    /\ \E tok \in T :
          /\ sess' = Put(s, OnRequest(sess[s], tok))
          /\ credentials' = CredentialsOnRequest(credentials, tok)
    /\ UNCHANGED previousQueries

\* oauth2Client.refreshAccessToken() completes (line 569).
RefreshReturns(s, outcomes) ==
    /\ sess[s].pc = "refresh"
    /\ \E err \in outcomes :
          \E r \in {OnRefresh(sess[s], previousQueries, err)} :
              /\ sess' = [t \in Sessions |->
                            IF t = s THEN r.st
                            ELSE [sess[t] EXCEPT !.clearedByOther =
                                     @ \/ (InLoop(sess[t]) /\ sess[t].ownDecided # {}
                                            /\ ~(sess[t].ownDecided \subseteq r.pq))]]
              /\ previousQueries' = r.pq
              /\ credentials' = CredentialsOnRefresh(credentials, sess[s].token, err)

\* Math.random() is drawn on the way to the backoff only (line 123).
JitterOf(resp, J) == IF resp.kind = "json" THEN {0} ELSE J

\* anthropic.messages.create completes (line 52).  A response that asks once more
\* for a tried query is not taken after MaxDedupDepth re-invocations.
LlmReturns(s, R, J) ==
    /\ sess[s].pc = "llm"
    /\ \E resp \in R : \E jitter \in JitterOf(resp, J) :
          /\ ~(/\ resp.kind = "json"
               /\ AlreadyTried(resp.plan, previousQueries)
               /\ sess[s].prompt.suffixes >= MaxDedupDepth)
          /\ \E r \in {OnLlm(sess[s], previousQueries, resp, jitter)} :
                sess' = Put(s, r.st) /\ previousQueries' = r.pq
    /\ UNCHANGED credentials

\* The backoff timer fires (line 125).
BackoffElapses(s) ==
    /\ sess[s].pc = "backoff"
    /\ sess' = Put(s, OnBackoff(sess[s]))
    /\ UNCHANGED <<previousQueries, credentials>>

\* gmail.users.messages.list completes (line 225).
List1Returns(s, replies) ==
    /\ sess[s].pc = "list1"
    /\ \E reply \in replies : sess' = Put(s, OnList1(sess[s], previousQueries, reply))
    /\ UNCHANGED <<previousQueries, credentials>>

\* The fallback list call completes (line 238).
List2Returns(s, replies) ==
    /\ sess[s].pc = "list2"
    /\ \E reply \in replies : sess' = Put(s, OnList2(sess[s], previousQueries, reply))
    /\ UNCHANGED <<previousQueries, credentials>>

\* gmail.users.messages.get completes (line 258).
GetReturns(s) ==
    /\ sess[s].pc = "get"
    /\ \E res \in GetOutcomes(sess[s].messages[sess[s].idx]) :
          sess' = Put(s, OnGet(sess[s], previousQueries, res))
    /\ UNCHANGED <<previousQueries, credentials>>

(***************************************************************************)
(* Spec: one request, served from the module's state as an earlier        *)
(* request may have left it.                                              *)
(***************************************************************************)
Off == [InitSession EXCEPT !.pc = "off"]

Init ==
    /\ sess = [s \in Sessions |-> IF s = "r1" THEN InitSession ELSE Off]
    /\ previousQueries \in {{}, {QA}}
    /\ credentials = NoCredentials

Next ==
    \E s \in Sessions :
        \/ Request(s, Tokens)
        \/ RefreshReturns(s, RefreshOutcomes)
        \/ LlmReturns(s, Responses, Jitters)
        \/ BackoffElapses(s)
        \/ List1Returns(s, AgentReplies)
        \/ List2Returns(s, AgentReplies)
        \/ GetReturns(s)

Spec == Init /\ [][Next]_vars

(***************************************************************************)
(* SpecSearch: searchEmails called on its own, the mail store reporting   *)
(* any list of ids.  Ids are numbered by first appearance in the reply.   *)
(***************************************************************************)
MaxId(ids) == IF ids = <<>> THEN 0 ELSE CHOOSE m \in {ids[i] : i \in DOMAIN ids} :
                                          \A j \in DOMAIN ids : ids[j] <= m

RECURSIVE IdLists(_)
IdLists(n) ==
    IF n = 0 THEN {<<>>}
    ELSE LET shorter == IdLists(n - 1)
             longest == {l \in shorter : Len(l) = n - 1}
         IN  shorter \cup UNION {{Append(l, k) : k \in 1..(MaxId(l) + 1)} : l \in longest}

SearchReplies ==
    {ListReply(NoError, ids) : ids \in IdLists(MaxReplyLen)}
    \cup {ListReply(Err("backend", 500, "", FALSE, 500, FALSE), <<>>)}

FromX == OpFrom \o <<":", "x">>

SearchQueries == {QA, FromX}

Direct == [InitSession EXCEPT !.mode = "call"]

\* A caller invokes searchEmails(query) (line 218).
SearchCalled(s, Q) ==
    /\ sess[s].pc = "idle"
    /\ sess[s].mode = "call"
    /\ \E q \in Q : sess' = Put(s, CallSearchEmails(sess[s], q, "call"))
    /\ UNCHANGED <<previousQueries, credentials>>

SearchInit ==
    /\ sess = [s \in Sessions |-> IF s = "r1" THEN Direct ELSE Off]
    /\ previousQueries = {}
    /\ credentials = NoCredentials

SearchNext ==
    \E s \in Sessions :
        \/ SearchCalled(s, SearchQueries)
        \/ List1Returns(s, SearchReplies)
        \/ List2Returns(s, SearchReplies)
        \/ GetReturns(s)

SpecSearch == SearchInit /\ [][SearchNext]_vars

(***************************************************************************)
(* SpecTier: searchEmails called with every query of up to MaxQueryAtoms  *)
(* atoms, the mail store reporting nothing or one message.                *)
(***************************************************************************)
TierAtoms == {OpFrom, OpIn, <<":">>, <<" ">>, <<"a">>, <<Quote>>}

TierQueries == {Flatten(atoms) : atoms \in SeqsUpTo(TierAtoms, MaxQueryAtoms)}

TierReplies == {ListReply(NoError, <<>>), ListReply(NoError, <<1>>)}

TierNext ==
    \E s \in Sessions :
        \/ SearchCalled(s, TierQueries)
        \/ List1Returns(s, TierReplies)
        \/ List2Returns(s, TierReplies)
        \/ GetReturns(s)

SpecTier == SearchInit /\ [][TierNext]_vars

(***************************************************************************)
(* SpecConc: two requests served by the same process, interleaved at      *)
(* their awaited calls.  The mailbox is empty and the reasoning service   *)
(* answers every call.                                                    *)
(***************************************************************************)
ConcTokens == {Token(TRUE, Some("at"), Some("rt")), Token(TRUE, Some("at2"), Some("rt2"))}

ConcResponses ==
    {Response("json", NoError, FALSE,
              Plan(Some("search"), Some(QA), None, None, NoFinalFlag, None, None, None)),
     Response("json", NoError, FALSE,
              Plan(Some("final"), None, Some("X"), None, NoFinalFlag, None, None, None))}

ConcReplies == {ListReply(NoError, <<>>)}

ConcInit ==
    /\ sess = [s \in Sessions |-> InitSession]
    /\ previousQueries = {}
    /\ credentials = NoCredentials

ConcNext ==
    \E s \in Sessions :
        \/ Request(s, ConcTokens)
        \/ RefreshReturns(s, {NoError})
        \/ LlmReturns(s, ConcResponses, {0})
        \/ List1Returns(s, ConcReplies)
        \/ List2Returns(s, ConcReplies)

SpecConc == ConcInit /\ [][ConcNext]_vars

(***************************************************************************)
(* SpecSum: calculateSum called twice in a row with the same email list   *)
(* and category, for every list of up to MaxSumEmails summaries.          *)
(***************************************************************************)
MaxSumEmails == 2
MaxSumCalls == 2

Summary(subject, content) ==
    [kind |-> "email", from |-> <<"airline">>, subject |-> subject, date |-> <<"Mon">>,
     content |-> content, category |-> <<>>, currency |-> "", total |-> 0]

\* Summaries with a bare amount, with a keyword before the amount (in the
\* subject, in the content), with two currencies, an amount that is no
\* number and a second line, and with markers in lower case.
SumSummaries ==
    {Summary(<<"trip">>, <<"Rs.", " ", "4500">>),
     Summary(<<"receipt">>, <<"Rs.", " ", "3200">>),
     Summary(<<"fare">>, <<"Rs.", " ", "4500">>),
     Summary(<<"trip">>, <<"total", ":", " ", "Rs.", " ", "4500">>),
     Summary(<<"plan">>, <<"$", "250", " ", "$", ",", "\n", "USD", "1,000">>),
     Summary(<<"trip">>, <<"rs.", " ", "4500", " ", "rs.", " ", "3200", " ", "USD", "250">>),
     Summary(<<"trip">>, <<"usd", "250">>)}

Travel == <<"t", "r", "a", "v", "e", "l">>

SumCategories ==
    {Flights, <<"F", "l", "i", "g", "h", "t">>, Travel, <<>>, KeySubscription, KeyDefault}

\* One call of calculateSum (lines 315-410): it reads its arguments and writes
\* nothing but its result.  CalculateSumUnshifting is a calculateSum that puts
\* the CALCULATED SUM line into the list itself.
CalculateSumUnshifting(st) ==
    [st EXCEPT !.pc = "summed",
               !.sumResults = Append(@, CalculateSum(st.currentEmails, st.category)),
               !.currentEmails =
                   <<SumLine(st.category, CalculateSum(st.currentEmails, st.category))>>
                       \o @]

OnCalculateSum(st) ==
    [st EXCEPT !.pc = "summed",
               !.sumResults = Append(@, CalculateSum(st.currentEmails, st.category))]

\* A caller invokes calculateSum(emails, category).
SumCalled(s, E, C) ==
    /\ sess[s].pc = "idle"
    /\ sess[s].mode = "sum"
    /\ \E emails \in E, category \in C :
          sess' = Put(s, OnCalculateSum([sess[s] EXCEPT !.currentEmails = emails,
                                                        !.category = category,
                                                        !.given = emails]))
    /\ UNCHANGED <<previousQueries, credentials>>

\* The caller invokes it once more with the same list and category.
SumCalledAgain(s) ==
    /\ sess[s].pc = "summed"
    /\ sess[s].mode = "sum"
    /\ Len(sess[s].sumResults) < MaxSumCalls
    /\ sess' = Put(s, OnCalculateSum(sess[s]))
    /\ UNCHANGED <<previousQueries, credentials>>

SumInit ==
    /\ sess = [s \in Sessions |->
                 IF s = "r1" THEN [InitSession EXCEPT !.mode = "sum"] ELSE Off]
    /\ previousQueries = {}
    /\ credentials = NoCredentials

SumNext ==
    \E s \in Sessions :
        \/ SumCalled(s, SeqsUpTo(SumSummaries, MaxSumEmails), SumCategories)
        \/ SumCalledAgain(s)

SpecSum == SumInit /\ [][SumNext]_vars

(***************************************************************************)
(* SpecParse: parseEmailData called with raw messages of every shape: no  *)
(* payload, a payload without data, bodies that are empty, blank, short,  *)
(* or as long as the snippet length give or take MaxOver characters,      *)
(* with and without a snippet of the mail store.  A character is an atom. *)
(***************************************************************************)
MaxOver == 2

Repeat(c, n) == [i \in 1..n |-> c]

ParseBodies ==
    {<<>>, <<" ">>, <<"<ctl>", "\n">>, <<"h", "i">>, <<" ", "h", "\t", "i", " ">>}
    \cup {Repeat("x", n) : n \in (SnippetLength - MaxOver)..(SnippetLength + MaxOver)}

ParsePayloads ==
    {None, Some(Part(None, <<>>))}
    \cup {Some(Part(Some(b), <<>>)) : b \in ParseBodies}
    \cup {Some(Part(None, <<Part(Some(<<"a">>), <<>>), Part(Some(<<"b">>), <<>>)>>))}

ParseHeaders ==
    {<<>>,
     <<Header("Subject", <<>>)>>,
     <<Header("From", <<"a">>), Header("Subject", <<"s">>), Header("Date", <<"d">>)>>}

ParseSnippets == {<<>>, <<"s", "n", "i", "p">>, Repeat("y", SnippetLength + 1)}

ParseRaws ==
    {[headers |-> h, payload |-> p, snippet |-> sn] :
        h \in ParseHeaders, p \in ParsePayloads, sn \in ParseSnippets}

\* A caller invokes parseEmailData(emailData) (line 264).
ParseCalled(s, R) ==
    /\ sess[s].pc = "idle"
    /\ sess[s].mode = "parse"
    /\ \E raw \in R :
          sess' = Put(s, [sess[s] EXCEPT !.pc = "parsed", !.given = <<raw>>,
                                         !.emails = <<ParseEmailData(raw)>>])
    /\ UNCHANGED <<previousQueries, credentials>>

ParseInit ==
    /\ sess = [s \in Sessions |->
                 IF s = "r1" THEN [InitSession EXCEPT !.mode = "parse"] ELSE Off]
    /\ previousQueries = {}
    /\ credentials = NoCredentials

ParseNext == \E s \in Sessions : ParseCalled(s, ParseRaws)

SpecParse == ParseInit /\ [][ParseNext]_vars

(***************************************************************************)
(* SpecGuard: the middleware (src/middleware.ts) on requests to every     *)
(* path of up to MaxPathAtoms atoms, with and without the access_token    *)
(* cookie.  A path is a sequence of atoms: "/", the word "dashboard", and *)
(* another character.                                                     *)
(***************************************************************************)
MaxPathAtoms == 4

PathAtoms == {"/", "dashboard", "x"}

GuardPaths == {p \in SeqsUpTo(PathAtoms, MaxPathAtoms) : p # <<>> /\ p[1] = "/"}

\* request.cookies.get("access_token"): undefined, or the cookie with its value.
GuardCookies == {None, Some(""), Some("at")}

Dashboard == <<"/", "dashboard">>

\* config.matcher (lines 18-20): "/" and "/dashboard/:path*".
Matcher(path) ==
    \/ path = <<"/">>
    \/ path = Dashboard
    \/ StartsWithAt(path, 1, Dashboard \o <<"/">>)

\* !accessToken of line 7 and accessToken of line 11: the cookie object is
\* there.  HasAccessTokenValue looks at the cookie's value instead.
HasAccessTokenValue(cookie) == TruthyText(cookie)

HasAccessToken(cookie) == cookie # None

\* middleware (lines 4-16), for the requests the matcher hands to it.
Middleware(path, cookie) ==
    IF ~Matcher(path) THEN "next"
    ELSE IF StartsWithAt(path, 1, Dashboard) /\ ~HasAccessToken(cookie) THEN "redirect:/"
    ELSE IF path = <<"/">> /\ HasAccessToken(cookie) THEN "redirect:/dashboard"
    ELSE "next"

\* A request arrives at the route guard.
GuardCalled(s, P, K) ==
    /\ sess[s].pc = "idle"
    /\ sess[s].mode = "guard"
    /\ \E path \in P, cookie \in K :
          sess' = Put(s, [sess[s] EXCEPT !.pc = "guarded",
                                         !.given = <<[path |-> path, cookie |-> cookie]>>,
                                         !.guard = Middleware(path, cookie)])
    /\ UNCHANGED <<previousQueries, credentials>>

GuardInit ==
    /\ sess = [s \in Sessions |->
                 IF s = "r1" THEN [InitSession EXCEPT !.mode = "guard"] ELSE Off]
    /\ previousQueries = {}
    /\ credentials = NoCredentials

GuardNext == \E s \in Sessions : GuardCalled(s, GuardPaths, GuardCookies)

SpecGuard == GuardInit /\ [][GuardNext]_vars

(***************************************************************************)
(* SpecShot: the one-shot route (src/src/app/api/query/route.ts, lines    *)
(* 1-329).  POST refreshes the credentials, asks the reasoning service    *)
(* for the search parameters (llmGenerateDynamicParams), searches the     *)
(* mail store (processDynamicQuery), asks the reasoning service for an    *)
(* extract of each message (llmExtractInfo) and for the final analysis.   *)
(***************************************************************************)
DefaultInstructions == "Extract key details from the email content."

Params(searchQuery, extractionInstructions, aggregationMethod) ==
    [searchQuery |-> searchQuery, extractionInstructions |-> extractionInstructions,
     aggregationMethod |-> aggregationMethod]

\* What a call of the reasoning service gives on this route: kind "error" (the
\* call throws), "notext" (no text block), "text" (a text that is no JSON),
\* "json" (the text of a JSON object, parsed: params) or "jsonnull" (the text
\* null).
ShotResponse(kind, text, params) == [kind |-> kind, text |-> text, params |-> params]

\* llmGenerateDynamicParams (lines 30-77): Some(record), or None for null.
\* GenerateParamsKeepingQuery is a fallback that never takes the raw text.
GenerateParamsKeepingQuery(query, resp) ==
    CASE resp.kind = "json" -> Some(resp.params)
      [] resp.kind = "jsonnull" -> None
      [] OTHER -> Some(Params(query, DefaultInstructions, "list"))

GenerateParams(query, resp) ==
    CASE resp.kind = "json" -> Some(resp.params)
      [] resp.kind = "jsonnull" -> None
      [] resp.kind = "text" ->
            Some(Params(IF Trim(resp.text) # <<>> THEN Trim(resp.text) ELSE query,
                        DefaultInstructions, "list"))
      [] OTHER -> Some(Params(query, DefaultInstructions, "list"))

\* The list calls of processDynamicQuery (lines 92-96, 102-106, 110-114).
ShotListCall(q) == [op |-> "list", q |-> q, maxResults |-> 15, id |-> 0]

\* searchQuery.split(" ").join(" OR ") (lines 100-101).
OrQuery(searchQuery) == JoinWith(SplitOnSpace(searchQuery), OrSeparator)

\* searchQuery.split(" ")[0] (lines 109, 112).
FirstTerm(searchQuery) == SplitOnSpace(searchQuery)[1]

\* The summary llmExtractInfo builds (lines 145-181): as parseEmailData, the
\* first label being "Email from:".
EmailContent(raw) == [ParseEmailData(raw) EXCEPT !.kind = "emailContent"]

\* textBlock.text.trim() as an entry of aggregatedResults (line 211).
Extracted(text) ==
    [kind |-> "extracted", from |-> <<>>, subject |-> <<>>, date |-> <<>>,
     content |-> Trim(text), category |-> <<>>, currency |-> "", total |-> 0]

\* llmExtractInfo from its reasoning call on (lines 186-216).
\* ExtractInfoOrNothing gives an empty extract when the call fails.
ExtractInfoOrNothing(emailContent, resp) == Extracted(IF resp.kind = "text" THEN resp.text ELSE <<>>)

ExtractInfo(emailContent, resp) ==
    IF resp.kind = "text" THEN Extracted(resp.text) ELSE emailContent

\* Lines 246-253 with line 29: the refresh returned, llmGenerateDynamicParams
\* sleeps.
OnShotRefresh(st0, err) ==
    LET st == [st0 EXCEPT !.refreshFailed = err # NoError] IN
    IF RefreshFailed(err) THEN Throw(st, err) ELSE [st EXCEPT !.pc = "sleep"]

\* Line 29 is over, the reasoning call of lines 31-50 is made.
OnShotSleep(st) == [st EXCEPT !.pc = "params"]

\* The for loop of processDynamicQuery from position i (lines 121-126), and
\* lines 134 and 265-293 after it: every message is fetched, then the analysis
\* is asked for.
ShotFetchFrom(st, i) ==
    IF i > Len(st.messages) THEN [st EXCEPT !.pc = "analysis", !.idx = 0]
    ELSE [st EXCEPT !.pc = "pget", !.idx = i,
                    !.mailLog = Append(st.mailLog, GetCall(st.messages[i]))]

\* Lines 52-78, 253-264 and 89-96: the parameters are there and the first list
\* call is made.  Destructuring null throws.
OnParams(st0, resp) ==
    LET st == [st0 EXCEPT !.given = <<resp>>]
        dynamicParams == GenerateParams(st.userQuery, resp)
    IN  IF dynamicParams = None
        THEN Throw(st, ErrPlain("Cannot destructure dynamicParams"))
        ELSE [st EXCEPT !.pc = "plist1",
                        !.dynamicParams = dynamicParams,
                        !.query = dynamicParams[1].searchQuery,
                        !.emails = <<>>,
                        !.mailLog = <<ShotListCall(<<Quote>> \o dynamicParams[1].searchQuery
                                                             \o <<Quote>>)>>]

\* Lines 265-270: no email found.
NoEmailsFound(st) ==
    [LeaveRequest(st) EXCEPT !.status = 200, !.answer = Some(NoEmailsAnswer)]

\* A list call of processDynamicQuery returns (lines 98-118).
OnShotList(st, reply) ==
    IF reply.err # NoError THEN Throw(st, reply.err)
    ELSE IF reply.ids # <<>> THEN ShotFetchFrom([st EXCEPT !.messages = reply.ids], 1)
    ELSE CASE st.pc = "plist1" ->
                [st EXCEPT !.pc = "plist2",
                           !.mailLog = Append(st.mailLog, ShotListCall(OrQuery(st.query)))]
           [] st.pc = "plist2" ->
                [st EXCEPT !.pc = "plist3",
                           !.mailLog = Append(st.mailLog, ShotListCall(FirstTerm(st.query)))]
           [] OTHER -> NoEmailsFound(st)

\* The get call returns (lines 122-130) and llmExtractInfo runs up to its
\* reasoning call (lines 145-187).
OnShotGet(st, res) ==
    IF res.err # NoError THEN Throw(st, res.err)
    ELSE [st EXCEPT !.pc = "extract", !.emailContent = <<EmailContent(res.raw)>>]

\* The reasoning call of llmExtractInfo returns (lines 205-216, 132).
OnExtract(st, resp) ==
    ShotFetchFrom([st EXCEPT !.given = <<resp>>,
                             !.emails = Append(st.emails,
                                               ExtractInfo(st.emailContent[1], resp)),
                             !.emailContent = <<>>],
                  st.idx + 1)

\* The analysis call returns (lines 294-328).
OnAnalysis(st, resp) ==
    CASE resp.kind = "error" -> Throw(st, ErrPlain("api_error"))
      [] resp.kind = "notext" -> Throw(st, ErrPlain("No text content in analysis response"))
      [] OTHER -> Respond200(st, "analysis", st.emails)

ShotTokens == {NoToken, Token(TRUE, Some("at"), Some("rt"))}

ShotQueries == {<<>>, <<"a">>, <<"a", " ", "b">>}

Failures == {ShotResponse("error", <<>>, Params(<<>>, "", "")),
             ShotResponse("notext", <<>>, Params(<<>>, "", ""))}

ParamResponses ==
    Failures
    \cup {ShotResponse("text", t, Params(<<>>, "", "")) : t \in {<<" ">>, <<" ", "x", " ">>}}
    \cup {ShotResponse("json", <<>>, Params(<<"c", " ", "d">>, "summarize", "list")),
          ShotResponse("jsonnull", <<>>, Params(<<>>, "", ""))}

TextResponses == Failures \cup {ShotResponse("text", <<" ", "s", " ">>, Params(<<>>, "", ""))}

ShotReplies ==
    {[err |-> NoError, ids |-> ids] : ids \in {<<>>, <<1>>, <<2, 1>>}}
    \cup {[err |-> Err("backend", 500, "", FALSE, 500, FALSE), ids |-> <<>>]}

\* The request body has been read (lines 224-246).
ShotRequest(s, T, Q) ==
    /\ sess[s].pc = "idle"
    /\ sess[s].mode = "oneshot"
    /\ \E tok \in T, q \in Q :
          /\ sess' = Put(s, OnRequest([sess[s] EXCEPT !.userQuery = q], tok))
          /\ credentials' = CredentialsOnRequest(credentials, tok)
    /\ UNCHANGED previousQueries

\* oauth2Client.refreshAccessToken() completes (line 246).
ShotRefreshReturns(s, outcomes) ==
    /\ sess[s].pc = "refresh"
    /\ sess[s].mode = "oneshot"
    /\ \E err \in outcomes :
          /\ sess' = Put(s, OnShotRefresh(sess[s], err))
          /\ credentials' = CredentialsOnRefresh(credentials, sess[s].token, err)
    /\ UNCHANGED previousQueries

\* sleep(500) completes (line 29).
ShotSleepElapses(s) ==
    /\ sess[s].pc = "sleep"
    /\ sess' = Put(s, OnShotSleep(sess[s]))
    /\ UNCHANGED <<previousQueries, credentials>>

\* The reasoning call of llmGenerateDynamicParams completes (line 31).
ParamsReturn(s, R) ==
    /\ sess[s].pc = "params"
    /\ \E resp \in R : sess' = Put(s, OnParams(sess[s], resp))
    /\ UNCHANGED <<previousQueries, credentials>>

\* A list call of processDynamicQuery completes (lines 92, 102, 110).
ShotListReturns(s, replies) ==
    /\ sess[s].pc \in {"plist1", "plist2", "plist3"}
    /\ \E reply \in replies : sess' = Put(s, OnShotList(sess[s], reply))
    /\ UNCHANGED <<previousQueries, credentials>>

\* The get call of processDynamicQuery completes (line 122).
ShotGetReturns(s) ==
    /\ sess[s].pc = "pget"
    /\ \E res \in GetOutcomes(sess[s].messages[sess[s].idx]) :
          sess' = Put(s, OnShotGet(sess[s], res))
    /\ UNCHANGED <<previousQueries, credentials>>

\* The reasoning call of llmExtractInfo completes (line 187).
ExtractReturns(s, R) ==
    /\ sess[s].pc = "extract"
    /\ \E resp \in R : sess' = Put(s, OnExtract(sess[s], resp))
    /\ UNCHANGED <<previousQueries, credentials>>

\* The analysis call completes (line 276).
AnalysisReturns(s, R) ==
    /\ sess[s].pc = "analysis"
    /\ \E resp \in R : sess' = Put(s, OnAnalysis(sess[s], resp))
    /\ UNCHANGED <<previousQueries, credentials>>

ShotInit ==
    /\ sess = [s \in Sessions |->
                 IF s = "r1" THEN [InitSession EXCEPT !.mode = "oneshot"] ELSE Off]
    /\ previousQueries = {}
    /\ credentials = NoCredentials

ShotNext ==
    \E s \in Sessions :
        \/ ShotRequest(s, ShotTokens, ShotQueries)
        \/ ShotRefreshReturns(s, RefreshOutcomes)
        \/ ShotSleepElapses(s)
        \/ ParamsReturn(s, ParamResponses)
        \/ ShotListReturns(s, ShotReplies)
        \/ ShotGetReturns(s)
        \/ ExtractReturns(s, TextResponses)
        \/ AnalysisReturns(s, TextResponses)

SpecShot == ShotInit /\ [][ShotNext]_vars

(***************************************************************************)
(* The properties.  A request has entered the agent loop once it has      *)
(* taken a decision (decides > 0); agentSolveQuery has returned when the  *)
(* response is a 200, and has thrown when it is a 403 or a 500.           *)
(***************************************************************************)
Ended(s) == sess[s].pc = "done" /\ sess[s].decides > 0

NonEmptyAnswer(s) == sess[s].answer # None /\ sess[s].answer[1] # ""

\* Every reasoning call of the last decide call failed with the overload signal.
AllOverloaded(s) ==
    /\ sess[s].gwOutcome \in {"plan", "raised"}
    /\ sess[s].gwAttempts > 0
    /\ sess[s].gwOverloads = sess[s].gwAttempts

\* C1 as stated: a solveQuery call takes at most 5 decisions and ends by
\* returning a result with a non-empty answer, whatever the reasoning service
\* answers.
C1_AlwaysReturnsAnswer ==
    \A s \in Sessions :
        /\ sess[s].decides <= 5
        /\ Ended(s) => sess[s].status = 200 /\ NonEmptyAnswer(s)

\* C1 as the code has it: a solveQuery call takes at most 5 decisions; when it
\* returns, its answer is a non-empty string; when every reasoning call of a
\* decision fails with overload it returns the generic apology.  (It throws on a
\* response that is no JSON, on an error that is no overload and on an invalid
\* plan.)
C1_BoundedAndAnsweredOnReturn ==
    \A s \in Sessions :
        /\ sess[s].decides <= 5
        /\ sess[s].pc = "done" /\ sess[s].status = 200 => NonEmptyAnswer(s)
        /\ Ended(s) /\ AllOverloaded(s) =>
                sess[s].status = 200 /\ sess[s].answer = Some(ApologyAnswer)

\* C1 witness: a request that took all 5 decisions and returned an answer.
C1_Witness ==
    \E s \in Sessions :
        Ended(s) /\ sess[s].decides = 5 /\ sess[s].status = 200 /\ NonEmptyAnswer(s)

\* C2 as stated: within one solveQuery call no two calls of searchEmails carry
\* queries that are equal ignoring case.
C2_NoRepeatedSearch == \A s \in Sessions : ~sess[s].repeated

\* C3 as stated: the set of tried queries a request consults and shows to the
\* reasoning service holds exactly the queries decided in that request, and no
\* other request's start clears it.
C3_SessionStateIsolated ==
    \A s \in Sessions :
        /\ sess[s].consultOK
        /\ ~sess[s].clearedByOther
        /\ sess[s].pc = "llm" /\ sess[s].mode = "request" =>
                sess[s].prompt.previous \subseteq sess[s].ownDecided

\* C4: when every attempt of a decide call fails with the overload signal, the
\* call returns a Final plan with the non-empty generic apology and does not
\* raise.
C4_ExhaustionReturnsApology ==
    \A s \in Sessions :
        AllOverloaded(s) =>
            /\ sess[s].gwOutcome = "plan"
            /\ sess[s].gwPlan.action = Some("final")
            /\ sess[s].gwPlan.finalAnswer = Some(ApologyAnswer)
            /\ ApologyAnswer # ""

\* C4 witness: three attempts, three overloads, and the apology plan returned.
C4_Witness ==
    \E s \in Sessions :
        /\ AllOverloaded(s)
        /\ sess[s].gwAttempts = DefaultMaxRetries
        /\ sess[s].gwOutcome = "plan"
        /\ sess[s].gwPlan = ApologyPlan

\* C5 as stated: a response text that is no JSON fails the decide call on that
\* attempt, no further reasoning call is made, and the endpoint answers 500.
C5_NonJsonAborts ==
    \A s \in Sessions :
        sess[s].lastText = "nonjson" =>
            /\ sess[s].pc = "done"
            /\ sess[s].gwOutcome = "raised"
            /\ sess[s].status = 500

\* The decision {final: true, finalAnswer: X} without an action tag, X an answer
\* text.
FlaggedFinal(plan) ==
    /\ plan.action = None
    /\ plan.final = FlagTrue
    /\ plan.finalAnswer # None
    /\ plan.finalAnswer[1] # ""

\* The reasoning call of request s returns a plan in this step.
Decides(s) ==
    /\ sess[s].pc = "llm"
    /\ sess'[s] # sess[s]
    /\ sess'[s].lastText = "json"

\* C6: when the reasoning service returns {final: true, finalAnswer: X} without
\* an action tag, solveQuery returns the answer X together with the candidate
\* emails it holds at that moment.
C6_FlaggedFinalReturnsAnswer ==
    [][\A s \in Sessions :
          Decides(s) /\ FlaggedFinal(sess'[s].lastPlan) =>
              /\ sess'[s].pc = "done"
              /\ sess'[s].status = 200
              /\ sess'[s].answer = sess'[s].lastPlan.finalAnswer
              /\ sess'[s].outEmails = sess[s].currentEmails]_vars

\* C6 witness: a request answered X from the flagged shape, with emails at hand.
C6_Witness ==
    \E s \in Sessions :
        /\ sess[s].pc = "done"
        /\ sess[s].lastText = "json"
        /\ FlaggedFinal(sess[s].lastPlan)
        /\ sess[s].status = 200
        /\ sess[s].answer = Some("X")
        /\ sess[s].outEmails # <<>>

\* A plan the dispatch cannot carry out: its tag is none of the four, or it is a
\* Search or Refine without a query, or a Final without an answer text.
InvalidPlan(plan) ==
    \/ plan.action \notin {Some("search"), Some("refine"), Some("sum"), Some("final")}
    \/ /\ plan.action \in {Some("search"), Some("refine")}
       /\ (plan.query = None \/ plan.query = Some(<<>>))
    \/ /\ plan.action = Some("final")
       /\ (plan.finalAnswer = None \/ plan.finalAnswer = Some(""))

\* C7: a plan that is invalid after normalisation aborts the loop: the request
\* is over (no reasoning or mail-store call follows) and the endpoint answers
\* 500.
C7_InvalidPlanAborts ==
    \A s \in Sessions :
        sess[s].dispatched # None /\ InvalidPlan(sess[s].dispatched[1]) =>
            /\ sess[s].pc = "done"
            /\ sess[s].status = 500
            /\ sess[s].answer = Some(ErrorAnswer)

\* C7 witness: a Search plan with an empty query was dispatched and the request
\* ended with a 500.
C7_Witness ==
    \E s \in Sessions :
        /\ sess[s].dispatched # None
        /\ sess[s].dispatched[1].action = Some("search")
        /\ sess[s].dispatched[1].query = Some(<<>>)
        /\ sess[s].pc = "done"
        /\ sess[s].status = 500

\* The fifth decision of a request came, and the reasoning service decided Final
\* in none of the five.
FifthWithoutFinal(s) ==
    /\ Ended(s)
    /\ sess[s].decides = 5
    /\ sess[s].lastText = "json"
    /\ sess[s].gwOutcome = "plan"
    /\ sess[s].finalTags = 0

GetCalls(s) == {i \in DOMAIN sess[s].mailLog : sess[s].mailLog[i].op = "get"}

ListCalls(s) == {i \in DOMAIN sess[s].mailLog : sess[s].mailLog[i].op = "list"}

DistinctIds(s) == {sess[s].messages[i] : i \in DOMAIN sess[s].messages}

\* C9: one searchEmails call fetches at most 5 messages, asks for at most 8 ids
\* in each list call, and returns at most 5 summaries, however many ids the mail
\* store reports.
C9_SearchCaps ==
    \A s \in Sessions :
        /\ Cardinality(GetCalls(s)) <= 5
        /\ \A i \in ListCalls(s) : sess[s].mailLog[i].maxResults <= 8
        /\ sess[s].pc = "returned" => Len(sess[s].outEmails) <= 5

\* C9 witness: the mail store reported more than 5 different ids and the call
\* returned 5 summaries after 5 fetches.
C9_Witness ==
    \E s \in Sessions :
        /\ sess[s].pc = "returned"
        /\ Cardinality(DistinctIds(s)) > 5
        /\ Cardinality(GetCalls(s)) = 5
        /\ Len(sess[s].outEmails) = 5

\* The text of the query names a field operator: one of the eleven names
\* followed by a colon.
NamesOperator(q) ==
    \E i \in 1..Len(q), n \in OperatorNames :
        /\ i + Len(n) <= Len(q)
        /\ SubSeq(q, i, i + Len(n)) = n \o <<":">>

\* The same, the colon being followed by a character that is no white space.
NamesOperatorWithValue(q) ==
    \E i \in 1..Len(q), n \in OperatorNames :
        /\ i + Len(n) + 1 <= Len(q)
        /\ SubSeq(q, i, i + Len(n)) = n \o <<":">>
        /\ q[i + Len(n) + 1] \notin {" ", "\t", "\n"}

Wrapped(q) == <<"\"">> \o q \o <<"\"">>

\* The query of the first list call of request s.
SentFirst(s) == sess[s].mailLog[1].q

\* C10 as stated: a query that contains a field operator is sent unchanged in the
\* first list call, and every other query is sent wrapped in double quotes.
C10_OperatorQueriesUnchanged ==
    \A s \in Sessions :
        sess[s].mailLog # <<>> =>
            SentFirst(s) = IF NamesOperator(sess[s].query)
                           THEN sess[s].query ELSE Wrapped(sess[s].query)

\* C10 as the code has it: a query in which a field operator is directly
\* followed by a character that is no white space is sent unchanged in the first
\* list call; every other query, one with a bare operator such as "from:" or
\* "from: a" included, is sent wrapped in double quotes.
C10_OperatorWithValueUnchanged ==
    \A s \in Sessions :
        sess[s].mailLog # <<>> =>
            SentFirst(s) = IF NamesOperatorWithValue(sess[s].query)
                           THEN sess[s].query ELSE Wrapped(sess[s].query)

\* C10 witness: "from:a" was sent unchanged and is the query of the call.
C10_Witness ==
    \E s \in Sessions :
        /\ sess[s].mailLog # <<>>
        /\ sess[s].query = OpFrom \o <<":", "a">>
        /\ SentFirst(s) = sess[s].query

\* The fallback list call of request s reports no message in this step: the
\* first list call had reported none either.
NoMessageAtAnyTier(s) ==
    /\ sess[s].pc = "list2"
    /\ sess'[s] # sess[s]
    /\ sess'[s].pc # "get"
    /\ sess'[s].error \notin MailErrors

\* What makes solveQuery throw although the mail store is merely empty: a failed
\* reasoning call or an invalid plan.
ReasoningFailures ==
    {"parse", "No text content in agent response", "api_error", "unrecognized_action",
     "missing_query", "missing_final_answer"}

ScopeError(e) == e.code = 403 /\ e.metadataScope

\* C12: the endpoint answers 401 exactly when the request carries no token, 403
\* exactly when the request failed with the mail store's insufficient-scope
\* error, 500 exactly when it failed in any other way, and 200 with an answer
\* and an email list exactly when solveQuery returned.
C12_StatusCodes ==
    \A s \in Sessions :
        sess[s].pc = "done" =>
            /\ sess[s].status \in {200, 401, 403, 500}
            /\ sess[s].status = 401 <=> ~sess[s].token.present
            /\ sess[s].status = 403 <=> ScopeError(sess[s].error)
            /\ sess[s].status = 500 <=>
                  sess[s].error # NoError /\ ~ScopeError(sess[s].error)
            /\ sess[s].status = 200 <=>
                  sess[s].token.present /\ sess[s].error = NoError
            /\ sess[s].status = 200 =>
                  /\ sess[s].answer # None
                  /\ sess[s].errorField = None
                  /\ sess[s].decides > 0
            /\ sess[s].status # 200 => sess[s].outEmails = <<>>

\* C12 witness: a mail-store call failed with the insufficient-scope error and
\* the endpoint answered 403.
C12_Witness ==
    \E s \in Sessions :
        /\ sess[s].pc = "done"
        /\ sess[s].decides > 0
        /\ ScopeError(sess[s].error)
        /\ sess[s].status = 403
        /\ sess[s].answer = Some(ScopeAnswer)

\* C13 as stated: every failure response of the endpoint, the no-token response
\* included, carries a non-empty answer text.
C13_FailuresCarryAnswer ==
    \A s \in Sessions :
        sess[s].pc = "done" /\ sess[s].status # 200 =>
            /\ sess[s].answer # None
            /\ sess[s].answer[1] # ""

\* The request of s came with a token that holds no refresh token.
NoRefreshToken(s) ==
    /\ sess[s].token.present
    /\ (sess[s].token.refreshToken = None \/ sess[s].token.refreshToken = Some(""))

\* C14 as stated: a request whose token holds no refresh token, or whose token
\* refresh fails, is answered with HTTP 401 or 403 and the re-authenticate
\* message, without a second refresh.
C14_AuthFailuresAskReauth ==
    \A s \in Sessions :
        sess[s].pc = "done" /\ (NoRefreshToken(s) \/ sess[s].refreshFailed) =>
            /\ sess[s].status \in {401, 403}
            /\ sess[s].answer = Some(ScopeAnswer)
            /\ sess[s].refreshes <= 1

\* C15: a request refreshes the access token at most once, and only before its
\* first decision: every decision follows one successful refresh.  When the
\* refresh fails the request is over with no reasoning call and no mail-store
\* call made.
C15_RefreshOnceBeforeLoop ==
    \A s \in Sessions :
        /\ sess[s].refreshes <= 1
        /\ sess[s].pc = "refresh" => sess[s].decides = 0 /\ sess[s].refreshes = 1
        /\ sess[s].decides > 0 => sess[s].refreshes = 1 /\ ~sess[s].refreshFailed
        /\ sess[s].refreshFailed =>
              /\ sess[s].pc = "done"
              /\ sess[s].status # 200
              /\ sess[s].decides = 0
              /\ sess[s].gwAttempts = 0
              /\ sess[s].lastText = "none"
              /\ sess[s].mailLog = <<>>
              /\ sess[s].searched = {}
              /\ ~sess[s].seen

\* C15 witness: the one refresh of a request failed and the request ended
\* without a decision.
C15_Witness ==
    \E s \in Sessions :
        /\ sess[s].refreshFailed
        /\ sess[s].refreshes = 1
        /\ sess[s].pc = "done"
        /\ sess[s].decides = 0
        /\ sess[s].error.kind = "invalid_grant"

HoldsAmount(e, a) == Includes(e.content, <<"Rs.", " ", a>>)

\* calculateSum was called with category "flights" and two summaries whose
\* contents hold "Rs. 4500" and "Rs. 3200".
TwoAmounts(s) ==
    /\ sess[s].pc = "summed"
    /\ sess[s].category = Flights
    /\ Len(sess[s].given) = 2
    /\ HoldsAmount(sess[s].given[1], "4500")
    /\ HoldsAmount(sess[s].given[2], "3200")

\* C17 as stated: for two summaries whose contents hold "Rs. 4500" and
\* "Rs. 3200", the sum for category "flights" has total 7700 and currency "Rs.".
C17_TwoAmountsSum7700 ==
    \A s \in Sessions :
        TwoAmounts(s) =>
            /\ sess[s].sumResults[1].total = 7700
            /\ sess[s].sumResults[1].currency = "Rs."

\* The category of the call holds none of the keys default, flight and
\* subscription as a lower-cased substring.
NoKnownKey(category) ==
    \A key \in {KeyDefault, KeyFlight, KeySubscription} :
        ~Includes(ToLowerCase(category), key)

\* The matches of the bare currency-and-number pattern in the texts of the list.
RECURSIVE BareMatches(_)
BareMatches(emails) ==
    IF emails = <<>> THEN <<>>
    ELSE ScanMoney(SearchText(Head(emails)), 1, FALSE) \o BareMatches(Tail(emails))

\* C18: for a category that holds none of the known keys, calculateSum matches
\* with the default pattern alone: its details are the matches of the bare
\* currency-and-number pattern that parse as numbers, each once, and its total
\* is their sum.
C18_UnknownCategoryUsesDefault ==
    \A s \in Sessions :
        sess[s].pc = "summed" /\ NoKnownKey(sess[s].category) =>
            /\ sess[s].sumResults[1].details =
                   SelectSeq(BareMatches(sess[s].given),
                             LAMBDA m : ParseFloat(m.amount) # NaN)
            /\ sess[s].sumResults[1].total = SumAmounts(BareMatches(sess[s].given))

\* C18 witness: category "travel" and a summary with a keyword before its
\* amount, which the flight patterns would count twice: the total is 4500.
C18_Witness ==
    \E s \in Sessions :
        /\ sess[s].pc = "summed"
        /\ sess[s].category = Travel
        /\ NoKnownKey(sess[s].category)
        /\ Len(sess[s].given) = 1
        /\ Includes(sess[s].given[1].content, <<"total", ":", " ", "Rs.", " ", "4500">>)
        /\ sess[s].sumResults[1].total = 4500

\* The data texts of a part and of its sub-parts, in order.
RECURSIVE DataOf(_)
RECURSIVE DataOfAll(_)
DataOf(part) ==
    (IF part.data # None THEN <<part.data[1]>> ELSE <<>>) \o DataOfAll(part.parts)
DataOfAll(parts) ==
    IF parts = <<>> THEN <<>> ELSE DataOf(Head(parts)) \o DataOfAll(Tail(parts))

\* The raw message has body data that decodes to at least one character.
HasBody(raw) ==
    /\ raw.payload # None
    /\ \E i \in DOMAIN DataOf(raw.payload[1]) : DataOf(raw.payload[1])[i] # <<>>

\* The same, one of the characters being neither white space nor a control
\* character.
HasVisibleBody(raw) ==
    /\ raw.payload # None
    /\ \E i \in DOMAIN DataOf(raw.payload[1]) :
          \E k \in DOMAIN DataOf(raw.payload[1])[i] :
              /\ ~IsSpace(DataOf(raw.payload[1])[i][k])
              /\ DataOf(raw.payload[1])[i][k] \notin ControlChars

\* The decoded body of a raw message with a payload, trimmed.
TrimmedBody(raw) == Trim(GetBodyContent(raw.payload[1]))

\* Text t at the length the summary gives it.
Shortened(t) ==
    IF Len(t) <= 200 THEN t ELSE [i \in 1..201 |-> IF i <= 200 THEN t[i] ELSE "..."]

\* C19 as stated: with no decodable body and no snippet the content of the
\* summary is "No content available"; when a decodable body exists the body is
\* the content, and otherwise the snippet is.
C19_BodyThenSnippet ==
    \A s \in Sessions :
        sess[s].pc = "parsed" =>
            LET raw == sess[s].given[1]
                content == sess[s].emails[1].content
            IN  /\ ~HasBody(raw) /\ raw.snippet = <<>> => content = NoContentAvailable
                /\ HasBody(raw) => content = Shortened(TrimmedBody(raw))
                /\ ~HasBody(raw) /\ raw.snippet # <<>> => content = Shortened(raw.snippet)

\* C19, amended: the body counts when it holds a character that is neither
\* white space nor a control character; the body is then the content (trimmed,
\* at the summary's length); otherwise the snippet is, and without a snippet
\* the content is "No content available".
C19_VisibleBodyThenSnippet ==
    \A s \in Sessions :
        sess[s].pc = "parsed" =>
            LET raw == sess[s].given[1]
                content == sess[s].emails[1].content
            IN  /\ ~HasVisibleBody(raw) /\ raw.snippet = <<>> =>
                      content = NoContentAvailable
                /\ HasVisibleBody(raw) =>
                      content = Shortened(TrimmedBody(raw)) /\ content # <<>>
                /\ ~HasVisibleBody(raw) /\ raw.snippet # <<>> =>
                      content = Shortened(raw.snippet)

\* C19 witness: a message whose body is blank and that has a snippet was
\* parsed, and the snippet is the content.
C19_Witness ==
    \E s \in Sessions :
        /\ sess[s].pc = "parsed"
        /\ HasBody(sess[s].given[1])
        /\ ~HasVisibleBody(sess[s].given[1])
        /\ sess[s].given[1].snippet = <<"s", "n", "i", "p">>
        /\ sess[s].emails[1].content = <<"s", "n", "i", "p">>

\* C20: a content of more than 200 characters appears in the summary as its
\* first 200 characters followed by "..."; a content of 200 characters or
\* fewer appears unchanged.
C20_TruncatedAt200 ==
    \A s \in Sessions :
        sess[s].pc = "parsed" =>
            LET body == BodyOf(sess[s].given[1])
                content == sess[s].emails[1].content
            IN  /\ Len(body) > 200 =>
                      /\ Len(content) = 201
                      /\ \A i \in 1..200 : content[i] = body[i]
                      /\ content[201] = "..."
                /\ Len(body) <= 200 => content = body

\* C20 witness: a body of 201 characters was parsed into 200 of them and "...".
C20_Witness ==
    \E s \in Sessions :
        /\ sess[s].pc = "parsed"
        /\ sess[s].given[1].payload = Some(Part(Some(Repeat("x", 201)), <<>>))
        /\ sess[s].emails[1].content = Repeat("x", 200) \o <<"...">>

\* The path is the protected area: /dashboard or a path below it.
Protected(path) ==
    \/ path = <<"/", "dashboard">>
    \/ Len(path) > 2 /\ SubSeq(path, 1, 3) = <<"/", "dashboard", "/">>

\* C21: the route guard redirects a request to the protected area without an
\* access_token cookie to the entry point "/", redirects a request to the entry
\* point with the cookie to /dashboard, and lets every other request through.
C21_RouteGuard ==
    \A s \in Sessions :
        sess[s].pc = "guarded" =>
            LET path == sess[s].given[1].path
                cookie == sess[s].given[1].cookie
            IN  sess[s].guard =
                    IF Protected(path) /\ cookie = None THEN "redirect:/"
                    ELSE IF path = <<"/">> /\ cookie # None THEN "redirect:/dashboard"
                    ELSE "next"

\* C21 witness: a request to a page below /dashboard without the cookie was
\* redirected to the entry point.
C21_Witness ==
    \E s \in Sessions :
        /\ sess[s].pc = "guarded"
        /\ sess[s].given[1].path = <<"/", "dashboard", "/", "x">>
        /\ sess[s].given[1].cookie = None
        /\ sess[s].guard = "redirect:/"

\* C22 as stated: in a decide call in which the reasoning service signalled
\* overload, the reasoning service is called at most 3 times in total.
C22_AtMostThreeCalls ==
    \A s \in Sessions : sess[s].gwSignals > 0 => sess[s].gwAttempts <= 3

\* C22, amended: in one decide call at most 3 reasoning calls end in the
\* overload signal; a sleep follows the first and the second of them and none
\* follows the third, after which the decide call is over; the reasoning service
\* is called at most 3 times plus once for every response that asked again for
\* a tried query.
C22_AtMostThreeOverloads ==
    \A s \in Sessions :
        /\ sess[s].gwSignals <= 3
        /\ sess[s].gwSleeps = Min(sess[s].gwSignals, 2)
        /\ sess[s].pc = "backoff" => sess[s].gwSignals \in {1, 2}
        /\ sess[s].gwSignals = 3 => sess[s].gwOutcome = "plan" /\ sess[s].pc # "backoff"
        /\ sess[s].gwAttempts <= 3 + sess[s].gwReinvokes
        /\ sess[s].gwReinvokes = 0 => sess[s].gwAttempts <= 3
        /\ sess[s].pc = "llm" =>
              sess[s].gwAttempts = 1 + sess[s].gwSleeps + sess[s].gwReinvokes
        /\ sess[s].pc = "backoff" =>
              sess[s].gwAttempts = sess[s].gwSleeps + sess[s].gwReinvokes

\* C22 witness: three calls of one decide call, with no repeated query between
\* them, ended in the overload signal; two sleeps were taken and the decide call
\* returned.
C22_Witness ==
    \E s \in Sessions :
        /\ sess[s].gwSignals = 3
        /\ sess[s].gwAttempts = 3
        /\ sess[s].gwReinvokes = 0
        /\ sess[s].gwSleeps = 2
        /\ sess[s].gwOutcome = "plan"

\* C23 as stated: within one decide call the reasoning call is made again with
\* the "try a different search term" instruction exactly once for a decision
\* that repeats a tried query, and the second response is returned to the
\* caller whatever it is: no decide call re-invokes twice.
C23_ReinvokedOnce ==
    \A s \in Sessions :
        /\ sess[s].gwReinvokes <= 1
        /\ sess[s].prompt.suffixes <= 1

\* The reasoning call of request s ends in this step with an error of the
\* reasoning service that is not the overload signal, or without a text block.
FailsOtherwise(s) ==
    /\ sess[s].pc = "llm"
    /\ sess'[s] # sess[s]
    /\ sess'[s].lastText \in {"error", "notext"}

\* C24: an error of a reasoning call that is not the overload signal leaves the
\* decide call in the step in which it occurs: the request ends with that
\* error, and neither a sleep nor a further reasoning call follows it.
C24_OtherErrorsPropagate ==
    [][\A s \in Sessions :
          /\ FailsOtherwise(s) =>
                /\ sess'[s].pc = "done"
                /\ sess'[s].gwOutcome = "raised"
                /\ sess'[s].error.kind \in {"api_error", "No text content in agent response"}
                /\ sess'[s].status = 500
                /\ sess'[s].gwAttempts = sess[s].gwAttempts
                /\ sess'[s].gwSleeps = sess[s].gwSleeps
                /\ sess'[s].gwSignals = sess[s].gwSignals
          /\ sess'[s].gwOutcome = "raised" =>
                sess'[s].pc = "done" /\ ~(sess'[s].error.status = 529)
      ]_vars

\* C24 witness: the second attempt of a decide call, made after an overload and
\* its sleep, failed with another error, and the request ended with it.
C24_Witness ==
    \E s \in Sessions :
        /\ sess[s].pc = "done"
        /\ sess[s].gwOutcome = "raised"
        /\ sess[s].error.kind = "api_error"
        /\ sess[s].gwAttempts = 2
        /\ sess[s].gwSleeps = 1

\* The fifth decide call of request s, the one made with forceFinal, returned
\* a plan made from a parsed decision whose tag is not Final.
ForcedFromOtherTag(s) ==
    /\ sess[s].decides = MaxIterations
    /\ sess[s].gwOutcome = "plan"
    /\ sess[s].lastText = "json"
    /\ Normalize(sess[s].lastPlan).action # Some("final")

\* C25: decide is called with forceFinal in the fifth iteration and in no other;
\* when the parsed decision's tag is then not Final, the returned plan has tag
\* Final and carries the answer text of the decision, or the generic non-empty
\* answer when the decision has none; the request ends with that answer.
C25_ForceFinalOverrides ==
    \A s \in Sessions :
        /\ sess[s].pc \in {"llm", "backoff"} =>
              (sess[s].forceFinal <=> sess[s].decides = MaxIterations)
        /\ ForcedFromOtherTag(s) =>
              /\ sess[s].gwPlan.action = Some("final")
              /\ TruthyText(sess[s].lastPlan.finalAnswer) =>
                    sess[s].gwPlan.finalAnswer = sess[s].lastPlan.finalAnswer
              /\ ~TruthyText(sess[s].lastPlan.finalAnswer) =>
                    sess[s].gwPlan.finalAnswer = Some(ForcedAnswer)
              /\ ForcedAnswer # ""
              /\ sess[s].pc = "done"
              /\ sess[s].status = 200
              /\ sess[s].answer = sess[s].gwPlan.finalAnswer

\* C25 witness: the fifth decision was a Refine that carried the answer text
\* "X"; the request ended with the answer "X".
C25_Witness ==
    \E s \in Sessions :
        /\ ForcedFromOtherTag(s)
        /\ sess[s].lastPlan.action = Some("refine")
        /\ sess[s].lastPlan.finalAnswer = Some("X")
        /\ sess[s].gwPlan.action = Some("final")
        /\ sess[s].answer = Some("X")

\* The tags a decision without an action field names in the nested form.
NestedTags(plan) ==
    {t \in {"search", "refine", "sum", "final"} :
        \/ t = "search" /\ plan.search # None
        \/ t = "refine" /\ plan.refine # None
        \/ t = "sum" /\ plan.sum # None
        \/ t = "final" /\ plan.final.kind = "object"}

\* The decision the loop of request s has just dispatched came in the nested
\* form with the one tag t, from a decide call without forceFinal.
NestedDispatched(s, t) ==
    /\ sess[s].gwOutcome = "plan"
    /\ sess[s].lastText = "json"
    /\ sess[s].decides < MaxIterations
    /\ sess[s].dispatched # None
    /\ sess[s].lastPlan.action = None
    /\ NestedTags(sess[s].lastPlan) = {t}

\* C26 as stated: a decision in the nested form is dispatched as the canonical
\* plan with its tag, for each of the tags search, refine, sum and final.
C26_NestedFormsRewritten ==
    \A s \in Sessions : \A t \in {"search", "refine", "sum", "final"} :
        NestedDispatched(s, t) =>
            /\ sess[s].dispatched[1].action = Some(t)
            /\ sess[s].error.kind # "unrecognized_action"

\* The search of a Search or Refine action of request s returns to the loop in
\* this step.
SearchActionReturns(s) ==
    /\ sess[s].mode = "request"
    /\ sess[s].pc \in {"list2", "get"}
    /\ sess[s].cont = "search"
    /\ sess'[s].pc = "llm"

\* C27: when the search of a Search or Refine action returns, its summaries
\* (those fetched so far and the one of the last fetch, or none when the mail
\* store reported no message) are appended to allProcessedEmails; the candidate
\* list is these results, or the first up to 5 entries of allProcessedEmails
\* when there are no results and allProcessedEmails is not empty.
C27_SearchAccumulates ==
    [][\A s \in Sessions :
          SearchActionReturns(s) =>
              LET all == sess[s].allProcessedEmails
                  all2 == sess'[s].allProcessedEmails
                  results == SubSeq(all2, Len(all) + 1, Len(all2))
              IN  /\ Len(all2) >= Len(all)
                  /\ SubSeq(all2, 1, Len(all)) = all
                  /\ sess[s].pc = "list2" => results = <<>>
                  /\ sess[s].pc = "get" =>
                        /\ Len(results) = Len(sess[s].emails) + 1
                        /\ SubSeq(results, 1, Len(sess[s].emails)) = sess[s].emails
                        /\ results[Len(results)].kind = "email"
                  /\ sess'[s].currentEmails =
                        IF results = <<>> /\ all2 # <<>>
                        THEN SubSeq(all2, 1, Min(5, Len(all2)))
                        ELSE results
      ]_vars

\* C27 witness: a decision is taken with four candidates, all that the session
\* has seen: no search returns more than two in this mailbox, so the last
\* search returned none and the candidates are the emails seen before.
C27_Witness ==
    \E s \in Sessions :
        /\ sess[s].pc = "llm"
        /\ Len(sess[s].allProcessedEmails) = 4
        /\ sess[s].currentEmails = sess[s].allProcessedEmails
        /\ \A i \in 1..4 : sess[s].currentEmails[i].kind = "email"

\* The search term and the category of a Sum plan.
TermOfSum(plan) ==
    IF plan.sumCategory # None /\ plan.sumCategory[1] # <<>> THEN plan.sumCategory[1]
    ELSE IF plan.query # None /\ plan.query[1] # <<>> THEN plan.query[1]
    ELSE <<"d", "e", "f", "a", "u", "l", "t">>

CategoryOfSum(plan) ==
    IF plan.sumCategory # None /\ plan.sumCategory[1] # <<>> THEN plan.sumCategory[1]
    ELSE IF plan.sum # None /\ plan.sum[1].category # None /\ plan.sum[1].category[1] # <<>>
         THEN plan.sum[1].category[1]
    ELSE <<"d", "e", "f", "a", "u", "l", "t">>

\* In the state after this step the candidate list of s is the list before
\* with one CALCULATED SUM line in front, which carries the total and the
\* currency of the aggregation of before for category; the prompt of the next
\* decision holds this list.
SumInserted(s, before, category) ==
    /\ sess'[s].pc = "llm"
    /\ Len(sess'[s].currentEmails) = Len(before) + 1
    /\ Tail(sess'[s].currentEmails) = before
    /\ sess'[s].currentEmails[1].kind = "sum"
    /\ sess'[s].currentEmails[1].category = category
    /\ sess'[s].currentEmails[1].total = CalculateSum(before, category).total
    /\ sess'[s].currentEmails[1].currency = CalculateSum(before, category).currency
    /\ \A i \in 1..Len(before) : before[i].kind = "sum" => before[i] = sess[s].currentEmails[i]
    /\ sess'[s].prompt.emails = sess'[s].currentEmails

\* C28: a Sum plan met with an empty candidate list starts a search for the
\* plan's category (else its query, else "default"); when the candidates are
\* there (at once, or when that search returns) the aggregation for the plan's
\* category is computed over them and one CALCULATED SUM line with its total
\* and currency is put in front of them; the next decision sees that list.
C28_SumPrependsLine ==
    [][\A s \in Sessions :
          /\ Decides(s) /\ sess'[s].pc = "list1" /\ sess'[s].cont = "sum" =>
                /\ sess[s].currentEmails = <<>>
                /\ sess'[s].dispatched[1].action = Some("sum")
                /\ sess'[s].query = TermOfSum(sess'[s].dispatched[1])
                /\ sess'[s].category = CategoryOfSum(sess'[s].dispatched[1])
                /\ sess'[s].mailLog = <<ListCall(Tier1Query(sess'[s].query))>>
          /\ /\ Decides(s)
             /\ sess'[s].decides = sess[s].decides + 1
             /\ sess'[s].dispatched # None
             /\ sess'[s].dispatched[1].action = Some("sum")
             => /\ sess[s].currentEmails # <<>>
                /\ SumInserted(s, sess[s].currentEmails,
                                CategoryOfSum(sess'[s].dispatched[1]))
          /\ /\ sess[s].pc \in {"list2", "get"}
             /\ sess[s].cont = "sum"
             /\ sess'[s].pc # "get"
             /\ sess'[s].error \notin MailErrors
             => SumInserted(s, Tail(sess'[s].currentEmails), sess[s].category)
          /\ /\ Decides(s)
             /\ sess'[s].gwOutcome = "plan"
             /\ sess'[s].dispatched[1].action = Some("sum")
             /\ sess[s].currentEmails = <<>>
             => sess'[s].pc = "list1" /\ sess'[s].cont = "sum"
      ]_vars

\* C28 witness: a Sum for "flights" met no candidates, its search fetched two
\* emails, and the next decision sees the line with the total in front of them.
C28_Witness ==
    \E s \in Sessions :
        /\ sess[s].pc = "llm"
        /\ sess[s].allProcessedEmails = <<>>
        /\ Len(sess[s].currentEmails) = 3
        /\ sess[s].currentEmails[1].kind = "sum"
        /\ sess[s].currentEmails[1].category = Flights
        /\ sess[s].currentEmails[1].total > 0
        /\ sess[s].prompt.emails = sess[s].currentEmails

\* The first of the cleaned tokens of the query that are longer than one
\* character.
FirstTokenOf(q) ==
    LET tokens == SelectSeq(SplitOnSpace(CleanQuery(q)), LAMBDA t : Len(t) > 1)
    IN  IF tokens = <<>> THEN <<>> ELSE tokens[1]

\* C29 as stated: the list calls of one searchEmails call are, in this order,
\* the exact phrase (or the query itself when it holds an operator), the OR of
\* the cleaned tokens longer than one character, and the first token alone; a
\* call that returns without having fetched a message (every tier it asked
\* reported nothing) has asked all three.
C29_ThreeTierLadder ==
    \A s \in Sessions :
        sess[s].mode = "call" /\ sess[s].mailLog # <<>> =>
            /\ sess[s].mailLog[1] = ListCall(Tier1Query(sess[s].query))
            /\ 2 \in ListCalls(s) => sess[s].mailLog[2].q = Tier2Query(sess[s].query)
            /\ 3 \in ListCalls(s) => sess[s].mailLog[3].q = FirstTokenOf(sess[s].query)
            /\ sess[s].pc = "returned" /\ GetCalls(s) = {} => ListCalls(s) = {1, 2, 3}

\* The ids of a list reply in the order of their first occurrence.
RECURSIVE FirstOccurrences(_)
FirstOccurrences(ids) ==
    IF ids = <<>> THEN <<>>
    ELSE LET earlier == FirstOccurrences(SubSeq(ids, 1, Len(ids) - 1))
             last == ids[Len(ids)]
         IN  IF \E i \in DOMAIN earlier : earlier[i] = last THEN earlier
             ELSE Append(earlier, last)

\* The get calls one searchEmails call has made, in their order.
Fetched(s) == SelectSeq(sess[s].mailLog, LAMBDA c : c.op = "get")

\* C30: one searchEmails call fetches no message id twice; it fetches the ids
\* in the order in which they first occur in the list reply, and the summaries
\* it returns are those of the first (at most five) distinct ids, in that order.
C30_FetchedOnceInOrder ==
    \A s \in Sessions :
        sess[s].mode = "call" =>
            LET gets == Fetched(s)
                order == FirstOccurrences(sess[s].messages)
            IN  /\ \A i, j \in DOMAIN gets : i # j => gets[i].id # gets[j].id
                /\ Len(gets) <= Len(order)
                /\ \A i \in DOMAIN gets : gets[i].id = order[i]
                /\ sess[s].pc = "returned" =>
                      /\ Len(sess[s].outEmails) = Min(MaxEmails, Len(order))
                      /\ Len(sess[s].outEmails) = Len(gets)
                      /\ \A k \in DOMAIN sess[s].outEmails :
                            sess[s].outEmails[k] = ParseEmailData(Mailbox(order[k]))

\* C30 witness: the list reply named message 1 again after message 2, and the
\* call returned one summary for each distinct id, message 1 before message 2.
C30_Witness ==
    \E s \in Sessions :
        /\ sess[s].mode = "call"
        /\ sess[s].pc = "returned"
        /\ Len(sess[s].messages) >= 3
        /\ SubSeq(sess[s].messages, 1, 3) = <<1, 2, 1>>
        /\ Len(sess[s].outEmails) = Cardinality(DistinctIds(s))
        /\ sess[s].outEmails[1] = ParseEmailData(Mailbox(1))
        /\ sess[s].outEmails[2] = ParseEmailData(Mailbox(2))
        /\ sess[s].outEmails[1] # sess[s].outEmails[2]

\* The matches calculateSum found in its email list for its category.
MatchesFound(s) == AllMatches(sess[s].given, CategoryKey(sess[s].category))

\* The currency markers the matches yielded, one entry for each match that
\* yielded one.
MarkersFound(s) ==
    LET ms == MatchesFound(s)
    IN  [i \in {k \in 1..Len(ms) : ms[k].currency # ""} |-> ms[i].currency]

TimesFound(s, marker) ==
    Cardinality({i \in DOMAIN MarkersFound(s) : MarkersFound(s)[i] = marker})

\* C31 as stated: the currency calculateSum returns is a currency marker that
\* no other marker outnumbers among the matches, and it is the rupee sign by
\* default when no match yielded a marker.
C31_MostFrequentMarker ==
    \A s \in Sessions :
        sess[s].mode = "sum" /\ sess[s].pc = "summed" =>
            LET found == MarkersFound(s)
                currency == sess[s].sumResults[1].currency
            IN  /\ DOMAIN found = {} => currency = RupeeSign
                /\ DOMAIN found # {} =>
                      /\ \E i \in DOMAIN found : found[i] = currency
                      /\ \A i \in DOMAIN found :
                            TimesFound(s, found[i]) <= TimesFound(s, currency)

\* The base of the delay after n failed attempts: 2000 ms after the first,
\* twice the base before after each further one.
RECURSIVE DoublingBase(_)
DoublingBase(n) == IF n <= 1 THEN 2000 ELSE 2 * DoublingBase(n - 1)

\* C32: while the gateway sleeps before a retry, its delay is the base for the
\* number of attempts that failed so far, which doubles with each of them, plus
\* a jitter from 0 up to but not including 1000 ms, and it is at most 10000 ms.
C32_BackoffDelay ==
    \A s \in Sessions :
        sess[s].pc = "backoff" =>
            /\ sess[s].retries >= 1
            /\ sess[s].delay - DoublingBase(sess[s].retries) \in 0..999
            /\ sess[s].delay <= 10000

\* C32 witness: the gateway sleeps after its second failed attempt, with the
\* doubled base and the greatest jitter.
C32_Witness ==
    \E s \in Sessions :
        /\ sess[s].pc = "backoff"
        /\ sess[s].retries = 2
        /\ sess[s].delay = 4999

\* The credentials that come from the token of request s: those set from the
\* token itself and those the identity provider issues for it.
OwnCredentials(s) ==
    {Credentials(sess[s].token.accessToken,
                 DecodeURIComponent(sess[s].token.refreshToken[1]), refreshed) :
        refreshed \in BOOLEAN}

\* C34 as stated: every call to the mail store made for a request is
\* authorized with credentials that come from the token of that request, never
\* with those of another request.
C34_OwnCredentialsOnly ==
    \A s \in Sessions :
        sess[s].mode = "request" /\ sess[s].authUsed # {} =>
            sess[s].authUsed \subseteq OwnCredentials(s)

\* Request s is inside the gateway: callAgentWithRetry waits for the reasoning
\* service or sleeps before a retry.
InGateway(s) == sess[s].mode = "request" /\ sess[s].pc \in {"llm", "backoff"}

\* C35: the gateway runs with forceFinal exactly when the iteration is the
\* fifth, there is no sixth iteration, and the step that ends the gateway call of
\* the fifth iteration ends the request, with a Final plan and its answer or
\* with a failure; the code after the loop is never reached.
C35_ForceFinalInFifthOnly ==
    [][\A s \in Sessions :
          /\ InGateway(s) =>
                /\ sess[s].prompt.iteration \in 1..5
                /\ sess[s].prompt.iteration = sess[s].iterations + 1
                /\ sess[s].forceFinal = (sess[s].prompt.iteration = 5)
                /\ sess[s].prompt.forceFinal = sess[s].forceFinal
          /\ ~sess'[s].afterLoop
          /\ InGateway(s) /\ sess[s].prompt.iteration = 5 /\ sess'[s] # sess[s] =>
                \/ /\ sess'[s].pc \in {"llm", "backoff"}
                   /\ sess'[s].prompt.iteration = 5
                   /\ sess'[s].forceFinal
                \/ /\ sess'[s].pc = "done"
                   /\ sess'[s].status = 200
                   /\ sess'[s].gwOutcome = "plan"
                   /\ sess'[s].gwPlan.action = Some("final")
                   /\ sess'[s].answer = sess'[s].gwPlan.finalAnswer
                   /\ TruthyText(sess'[s].answer)
                \/ /\ sess'[s].pc = "done"
                   /\ sess'[s].status \in {403, 500}
                   /\ sess'[s].answer \in {Some(ScopeAnswer), Some(ErrorAnswer)}
      ]_vars

\* C35 witness: the fifth iteration ended the request with a failure: the
\* reasoning service answered no JSON in the fifth gateway call.
C35_Witness ==
    \E s \in Sessions :
        /\ sess[s].pc = "done"
        /\ sess[s].decides = 5
        /\ sess[s].lastText = "nonjson"
        /\ sess[s].gwOutcome = "raised"
        /\ sess[s].status = 500
        /\ ~sess[s].afterLoop

\* C36: one request calls searchEmails at most 4 times, the searches of the
\* Search and Refine actions and those a Sum action makes for want of
\* candidates counted together: at most one in each of the first four
\* iterations, none in the fifth.
C36_AtMostFourSearches ==
    \A s \in Sessions :
        sess[s].mode = "request" =>
            /\ sess[s].searchCalls <= 4
            /\ sess[s].pc \in {"list1", "list2", "get"} =>
                  /\ sess[s].searchCalls <= sess[s].iterations + 1
                  /\ sess[s].iterations < 4
            /\ sess[s].pc \in {"llm", "backoff"} => sess[s].searchCalls <= sess[s].iterations

\* C36 witness: the fourth search of a request is under way; one of the four
\* was made by a Sum action.
C36_Witness ==
    \E s \in Sessions :
        /\ sess[s].mode = "request"
        /\ sess[s].pc = "list1"
        /\ sess[s].searchCalls = 4
        /\ sess[s].cont = "sum"

\* The reasoning call that completes in this step failed: it threw or its
\* message holds no text block.
CallFailed(s) == sess'[s].given[1].kind \in {"error", "notext"}

\* C33: on the one-shot route, when the reasoning call of the parameter
\* generation fails or gives a text that is no JSON, the request goes on to its
\* first list call with the search query being the trimmed raw text, or the
\* user's query when there is none, the default extraction instructions and the
\* method "list"; when the reasoning call of an extraction fails, the request
\* goes on and the extract is the raw summary of the email.
C33_OneShotFallbacks ==
    [][\A s \in Sessions :
          /\ /\ sess[s].mode = "oneshot"
             /\ sess[s].pc = "params"
             /\ sess'[s] # sess[s]
             /\ sess'[s].given[1].kind \in {"error", "notext", "text"}
             => /\ sess'[s].pc = "plist1"
                /\ sess'[s].status = 0
                /\ sess'[s].dynamicParams # None
                /\ sess'[s].dynamicParams[1].searchQuery =
                       IF CallFailed(s) \/ Trim(sess'[s].given[1].text) = <<>>
                       THEN sess[s].userQuery
                       ELSE Trim(sess'[s].given[1].text)
                /\ sess'[s].dynamicParams[1].extractionInstructions =
                       "Extract key details from the email content."
                /\ sess'[s].dynamicParams[1].aggregationMethod = "list"
                /\ sess'[s].mailLog =
                       <<ShotListCall(Wrapped(sess'[s].dynamicParams[1].searchQuery))>>
          /\ /\ sess[s].mode = "oneshot"
             /\ sess[s].pc = "extract"
             /\ sess'[s] # sess[s]
             => /\ sess'[s].pc \in {"pget", "analysis"}
                /\ sess'[s].status = 0
                /\ Len(sess'[s].emails) = Len(sess[s].emails) + 1
                /\ SubSeq(sess'[s].emails, 1, Len(sess[s].emails)) = sess[s].emails
                /\ CallFailed(s) =>
                      /\ sess'[s].emails[Len(sess'[s].emails)] = sess[s].emailContent[1]
                      /\ sess[s].emailContent[1] =
                            EmailContent(Mailbox(sess[s].messages[sess[s].idx]))
      ]_vars

\* C33 witness: the parameter generation fell back to the user's query "a b",
\* the reasoning call of the extraction of message 1 threw, and the analysis is
\* asked for with the raw summary of that message.
C33_Witness ==
    \E s \in Sessions :
        /\ sess[s].mode = "oneshot"
        /\ sess[s].pc = "analysis"
        /\ sess[s].userQuery = <<"a", " ", "b">>
        /\ sess[s].dynamicParams = Some(Params(<<"a", " ", "b">>, DefaultInstructions, "list"))
        /\ sess[s].given[1].kind = "error"
        /\ sess[s].emails = <<EmailContent(Mailbox(1))>>

====
